---- MODULE Spec2Model ----
(***************************************************************************)
(* Model of the Discord message scraper: the RateLimiter (sliding window   *)
(* and retry wrapper), DiscordScraper.scrapeChannel (pagination loop,      *)
(* timestamp filter, message cap), the feed they talk to, the CSVProcessor *)
(* (the artifact of a channel as the text of its file) and the runs of     *)
(* main.                                                                   *)
(*                                                                         *)
(* Time is the value of Date.now() in milliseconds.  Text (error messages, *)
(* files) is a sequence of one-character strings, so that String.includes  *)
(* is a real substring search and a file has the lines its newlines make.  *)
(* An optional value is a sequence of length 0/1.                          *)
(***************************************************************************)
EXTENDS Integers, Sequences, FiniteSets, TLC

(* ------------------------------------------------------------------ *)
(* Program constants                                                   *)
(* ------------------------------------------------------------------ *)
REQUESTS_PER_SECOND == 10
MAX_RETRIES == 3
RETRY_DELAY_MS == 1000
MESSAGE_LIMITS_MAX == 100
PAGINATION_DELAY_MS == 100
BATCH_INSERT_SIZE == 100
WINDOW_MS == 1000
HTTP_OK == 200
HTTP_TOO_MANY_REQUESTS == 429
HTTP_INTERNAL_SERVER_ERROR == 500

(* ------------------------------------------------------------------ *)
(* Bounds of the model                                                 *)
(* ------------------------------------------------------------------ *)
\* feeds hold fewer than MaxPages full pages
MaxPages == 3
\* executeWithRetry calls made on one RateLimiter by the direct caller
MaxCalls == 1
\* waitForRateLimit calls made on one RateLimiter by the direct caller
MaxRequests == 15
\* an operation (a fetch) takes 0 or OpLatency ms
OpLatency == 300
\* a timer fires on time or TimerLate ms late
TimerLate == 40
\* length of the batches and the largest timestamp given to the filter alone
MaxBatch == 3
MaxTs == 2
\* calls made on the CSVProcessors by the direct caller
MaxCsvCalls == 3
\* CSVProcessors made by the direct caller after the first
MaxProcessors == 1
\* runs of the tool after the first
MaxReruns == 1
\* length of the values of the messages that are serialized alone
MaxContent == 3
\* batch fetches of a run of main that the endpoint may throttle
MaxThrottledFetches == 1
\* callers that share one RateLimiter, and the calls they make together
NumCallers == 2
MaxCallerCalls == 4

(* ------------------------------------------------------------------ *)
(* State                                                               *)
(* ------------------------------------------------------------------ *)
VARIABLES
  feedSize,        \* number of messages of the channel
  maxMessages,     \* scrapeChannel's argument (0 = unlimited)
  timestampStart,  \* scrapeChannel's argument
  timestampEnd,    \* scrapeChannel's argument
  timing,          \* "exact": timers fire on time and requests take no time;
                   \* "loose": they may be late and slow
  now,             \* Date.now()
  requestTimes,    \* RateLimiter.requestTimes
  wakeAt,          \* when the pending setTimeout is due
  attempt,         \* executeWithRetry: the loop variable
  lastError,       \* executeWithRetry: lastError (null = <<>>)
  outcomes,        \* what each invocation of fn did, in this call
  sleeps,          \* the backoff delays asked for, in this call
  suspended,       \* ms spent in backoff delays, in this call
  result,          \* what executeWithRetry returned or threw
  admits,          \* slots reserved on this RateLimiter so far
  calls,           \* executeWithRetry calls made by the direct caller
  pc,              \* where the control is
  allMessages,     \* scrapeChannel: allMessages
  errors,          \* scrapeChannel: errors
  hasMore,         \* paginationState.hasMore
  before,          \* paginationState.before (undefined = <<>>)
  totalFetched,    \* paginationState.totalFetched
  cursors,         \* the `before` of every fetchMessageBatch call so far
  response,        \* the Response the fetch resolved with
  delays,          \* pagination delays taken so far
  channelId,       \* scrapeChannel's argument, userInput.channelId in main
  files,           \* the exports directory: the content of each channel's
                   \* artifact (no file = <<>>)
  csvFilePath,     \* CSVProcessor.csvFilePath ("" = <<>>), named by its channel
  initResult,      \* what the last initializeCSV returned or threw
  appendResult,    \* what the last appendMessages returned or threw
  appendCall,      \* the arguments of the last appendMessages call, and the
                   \* batches whose appendFileSync threw in it
  appendedRows,    \* per artifact, the total of the appendedCount of the
                   \* appendMessages calls made on it
  runs,            \* runs of main (or CSVProcessors made) after the first
  payload,         \* a message as the object JSON.stringify is given
  field,           \* the escaped data field made of it (none yet = <<>>)
  callerPc,        \* per concurrent caller of waitForRateLimit: "idle", or
                   \* "rlwait" while it is suspended in the await
  callerWake,      \* per concurrent caller: when its setTimeout is due
  overlapped       \* history: the last call of waitForRateLimit left two
                   \* callers suspended at the same time

(* ------------------------------------------------------------------ *)
(* Text                                                                *)
(* ------------------------------------------------------------------ *)
Includes(s, p) ==
  \E i \in 1..(Len(s) - Len(p) + 1) : SubSeq(s, i, i + Len(p) - 1) = p

DigitChar == <<"0", "1", "2", "3", "4", "5", "6", "7", "8", "9">>

RECURSIVE DigitsOf(_)
DigitsOf(n) ==
  IF n < 10 THEN <<DigitChar[n + 1]>>
  ELSE DigitsOf(n \div 10) \o <<DigitChar[(n % 10) + 1]>>

Txt429 == <<"4", "2", "9">>

\* messages an operation may throw
MsgRateLimited == <<"H", "T", "T", "P", " ", "4", "2", "9">>
MsgTooMany == <<"4", "2", "9", " ", "s", "l", "o", "w">>
MsgFetchFailed == <<"f", "e", "t", "c", "h", " ", "f", "a", "i", "l", "e", "d">>
MsgTimeout == <<"t", "i", "m", "e", "o", "u", "t", " ", "4", "2", " ", "9">>

\* `API returned status ${response.status}`
StatusMsg(status) ==
  <<"A", "P", "I", " ", "r", "e", "t", "u", "r", "n", "e", "d", " ",
    "s", "t", "a", "t", "u", "s", " ">> \o DigitsOf(status)

MsgTokenNotValid == <<"T", "o", "k", "e", "n", " ", "i", "s", " ", "n", "o", "t",
                      " ", "v", "a", "l", "i", "d">>
MsgTokenFileNotFound == <<"T", "o", "k", "e", "n", " ", "f", "i", "l", "e", " ",
                          "n", "o", "t", " ", "f", "o", "u", "n", "d">>
MsgSessionFailed == <<"S", "e", "s", "s", "i", "o", "n", " ", "v", "a", "l", "i",
                      "d", "a", "t", "i", "o", "n", " ", "f", "a", "i", "l", "e", "d">>
MsgChannelFailed == <<"C", "h", "a", "n", "n", "e", "l", " ", "a", "c", "c", "e",
                      "s", "s", " ", "v", "a", "l", "i", "d", "a", "t", "i", "o",
                      "n", " ", "f", "a", "i", "l", "e", "d">>
MsgValidationFailed == <<"V", "a", "l", "i", "d", "a", "t", "i", "o", "n", " ",
                         "f", "a", "i", "l", "e", "d", ":", " ">>

(* ------------------------------------------------------------------ *)
(* Values                                                              *)
(* ------------------------------------------------------------------ *)
Min(a, b) == IF a <= b THEN a ELSE b

\* a thrown value: an Error object or a bare string
Thrown(isErr, msg) == [isError |-> isErr, message |-> msg]

\* error instanceof Error ? error : new Error(String(error))
ToError(e) == IF e.isError THEN e ELSE Thrown(TRUE, e.message)

\* a catch that takes String(error) of an Error object
ErrorMsgString(e) == <<"E", "r", "r", "o", "r", ":", " ">> \o e.message

\* error instanceof Error ? error.message : String(error)
ErrorMsg(e) == e.message

\* Date values: null (bound not given), a date, or Invalid Date
NullDate == [kind |-> "null", ms |-> 0]
InvalidDate == [kind |-> "nan", ms |-> 0]
DateOf(t) == [kind |-> "date", ms |-> t]

\* a < b on Date objects (any comparison with Invalid Date is false)
DateLess(a, b) == a.kind = "date" /\ b.kind = "date" /\ a.ms < b.ms

\* truthiness of a Date | null
IsSet(d) == d.kind # "null"

Message(i, t) == [id |-> i, timestamp |-> t]

(* ------------------------------------------------------------------ *)
(* Pure functions of the program                                       *)
(* ------------------------------------------------------------------ *)
\* a bound that is never parsed
ParseBoundIgnored(s) == NullDate

\* timestampStart ? new Date(timestampStart) : null
ParseBound(s) ==
  IF s.text = "" THEN NullDate
  ELSE IF s.text = "date" THEN DateOf(s.ms)
  ELSE InvalidDate

NoBound == [text |-> "", ms |-> 0]
BoundAt(t) == [text |-> "date", ms |-> t]
GarbageBound == [text |-> "garbage", ms |-> 0]

\* a filter whose start bound is exclusive
KeepMessageExclusive(msg, startDate, endDate) ==
  LET msgDate == DateOf(msg.timestamp) IN
  IF IsSet(startDate) /\ ~DateLess(startDate, msgDate) THEN FALSE
  ELSE IF IsSet(endDate) /\ DateLess(endDate, msgDate) THEN FALSE
  ELSE TRUE

\* the predicate of messages.filter in filterByTimestamp
KeepMessage(msg, startDate, endDate) ==
  LET msgDate == DateOf(msg.timestamp) IN
  IF IsSet(startDate) /\ DateLess(msgDate, startDate) THEN FALSE
  ELSE IF IsSet(endDate) /\ DateLess(endDate, msgDate) THEN FALSE
  ELSE TRUE

filterByTimestamp(messages, startDate, endDate) ==
  IF ~IsSet(startDate) /\ ~IsSet(endDate) THEN messages
  ELSE SelectSeq(messages, LAMBDA msg : KeepMessage(msg, startDate, endDate))

\* this.requestTimes.filter((time) => time > oneSecondAgo)
PruneWindow(times, t) ==
  LET oneSecondAgo == t - WINDOW_MS IN
  SelectSeq(times, LAMBDA time : time > oneSecondAgo)

\* a window that lets one request too many through
WindowFullLax(times) == Len(times) > REQUESTS_PER_SECOND

\* this.requestTimes.length >= this.requestsPerSecond
WindowFull(times) == Len(times) >= REQUESTS_PER_SECOND

\* oldestRequest + 1000 - now
WaitTime(times, t) == times[1] + WINDOW_MS - t

\* a wrapper that takes every failure for a rate limit
IsRateLimitErrorAny(e) == Len(e.message) >= 0

\* lastError.message.includes("429")
IsRateLimitError(e) == Includes(e.message, Txt429)

\* a backoff that does not grow
BackoffDelayFlat(a) == RETRY_DELAY_MS + 0 * a

\* this.retryDelay * Math.pow(2, attempt - 1)
BackoffDelay(a) == RETRY_DELAY_MS * (2 ^ (a - 1))

\* a test that lets the final attempt back off as well
AttemptsRemainAlways(a) == a <= MAX_RETRIES

\* attempt < this.maxRetries
AttemptsRemain(a) == a < MAX_RETRIES

\* a loop that runs once too often
LoopContinuesExtra(a) == a <= MAX_RETRIES + 1

\* the test of the for loop: attempt <= this.maxRetries
LoopContinues(a) == a <= MAX_RETRIES

\* a cursor that is set by the first page and never advanced
NextCursorStale(batch) ==
  IF before = <<>> THEN <<batch[Len(batch)].id>> ELSE before

\* a cursor taken from the newest message of the page
NextCursorFirst(batch) == <<batch[1].id>>

\* a cursor taken from the last message the timestamp filter kept, and left
\* as it is when the filter kept none
NextCursorKept(batch) ==
  LET kept == filterByTimestamp(batch, ParseBound(timestampStart),
                                ParseBound(timestampEnd))
  IN IF kept = <<>> THEN before ELSE <<kept[Len(kept)].id>>

\* paginationState.before = lastMessage.id, lastMessage = batch[batch.length - 1]
NextCursor(batch) == <<batch[Len(batch)].id>>

\* the cap test without its maxMessages > 0 guard
CapReachedAlways(limit, n) == n >= limit

\* a cap that stops the loop only once it is exceeded
CapReachedStrict(limit, n) == limit > 0 /\ n > limit

\* a cap that is never taken for reached
CapReachedNever(limit, n) == limit > 0 /\ n > limit * limit

\* maxMessages > 0 && allMessages.length >= maxMessages
CapReached(limit, n) == limit > 0 /\ n >= limit

\* a cut that keeps the last n messages instead of the first n
SpliceLast(msgs, n) ==
  SubSeq(msgs, Len(msgs) - Min(n, Len(msgs)) + 1, Len(msgs))

\* allMessages.splice(maxMessages)
Splice(msgs, n) == SubSeq(msgs, 1, Min(n, Len(msgs)))

(* ------------------------------------------------------------------ *)
(* The remote feed: GET messages?limit=N&before=ID                     *)
(* ------------------------------------------------------------------ *)
\* a channel of n messages has ids 1..n, a larger id being newer; the
\* creation time of a message grows with its id
TimestampOfId(i) == i

\* newest first, at most lim messages, all older than the cursor
FeedPage(n, cursor, lim) ==
  LET top == IF cursor = <<>> THEN n ELSE Min(n, cursor[1] - 1)
      cnt == Min(lim, top)
  IN [k \in 1..cnt |-> Message(top + 1 - k, TimestampOfId(top + 1 - k))]

Response(isOk, st, msgs) == [ok |-> isOk, status |-> st, body |-> msgs]

(* ------------------------------------------------------------------ *)
(* Text of the CSV artifact                                            *)
(* ------------------------------------------------------------------ *)
Comma == ","
Quote == "\""
Newline == "\n"
Backslash == "\\"

RECURSIVE Join(_, _)
\* Array.prototype.join (the parts are joined half by half)
Join(parts, sep) ==
  IF Len(parts) = 0 THEN <<>>
  ELSE IF Len(parts) = 1 THEN parts[1]
  ELSE LET h == Len(parts) \div 2 IN
       Join(SubSeq(parts, 1, h), sep) \o sep
         \o Join(SubSeq(parts, h + 1, Len(parts)), sep)

\* String.prototype.split on a one-character separator: the pieces between
\* the places of the separator
SplitOn(s, c) ==
  LET at == SelectSeq([i \in 1..Len(s) |-> i], LAMBDA i : s[i] = c)
      n == Len(at)
  IN [k \in 1..(n + 1) |->
        SubSeq(s, IF k = 1 THEN 1 ELSE at[k - 1] + 1,
                  IF k = n + 1 THEN Len(s) ELSE at[k] - 1)]

\* value.replace(/"/g, '""')
DoubleQuotes(s) ==
  Join([i \in DOMAIN s |-> IF s[i] = Quote THEN <<Quote, Quote>> ELSE <<s[i]>>],
       <<>>)

\* String.prototype.includes of one character
HasChar(s, c) == \E i \in DOMAIN s : s[i] = c

\* a field that is quoted without doubling the quotes inside it
escapeCSVFieldPlain(value) ==
  IF \E i \in DOMAIN value : value[i] \in {Comma, Quote, Newline}
  THEN <<Quote>> \o value \o <<Quote>>
  ELSE value

\* CSVProcessor.escapeCSVField
escapeCSVField(value) ==
  IF HasChar(value, Comma) \/ HasChar(value, Quote) \/ HasChar(value, Newline)
  THEN <<Quote>> \o DoubleQuotes(value) \o <<Quote>>
  ELSE value

\* the characters of a string inside a JSON string literal
JsonEscape(s) ==
  Join([i \in DOMAIN s |->
          IF s[i] = Quote THEN <<Backslash, Quote>>
          ELSE IF s[i] = Backslash THEN <<Backslash, Backslash>>
          ELSE IF s[i] = Newline THEN <<Backslash, "n">>
          ELSE <<s[i]>>], <<>>)

\* a JSON string literal
JsonString(s) == <<Quote>> \o JsonEscape(s) \o <<Quote>>

\* JSON.stringify of an object whose values are strings; the object is the
\* sequence of its <<key, value>> pairs
JsonStringify(obj) ==
  <<"{">> \o Join([i \in DOMAIN obj |->
                     JsonString(obj[i][1]) \o <<":">> \o JsonString(obj[i][2])],
                  <<Comma>>)
    \o <<"}">>

KeyId ==
  <<"i", "d">>
KeyTimestamp ==
  <<"t", "i", "m", "e", "s", "t", "a", "m", "p">>
KeyContent ==
  <<"c", "o", "n", "t", "e", "n", "t">>

\* a DiscordMessage as the object JSON.stringify sees
MessageObject(msg) ==
  <<<<KeyId, DigitsOf(msg.id)>>, <<KeyTimestamp, DigitsOf(msg.timestamp)>>>>

\* CSV_HEADERS
CSV_HEADERS ==
  <<<<"s", "e", "r", "v", "e", "r", "_", "n", "a", "m", "e">>,
    <<"s", "e", "r", "v", "e", "r", "_", "i", "d">>,
    <<"c", "h", "a", "n", "n", "e", "l", "_", "n", "a", "m", "e">>,
    <<"c", "h", "a", "n", "n", "e", "l", "_", "i", "d">>,
    <<"d", "a", "t", "a">>>>

\* CSV_HEADERS.join(",") + "\n"
HeaderLine == Join(CSV_HEADERS, <<Comma>>) \o <<Newline>>

NameUnknown ==
  <<"U", "n", "k", "n", "o", "w", "n">>

ServerMetadata(sName, sId, cName, cId) ==
  [serverName |-> sName, serverId |-> sId, channelName |-> cName,
   channelId |-> cId]

\* CSVProcessor.convertToCsvRows
convertToCsvRows(messages, metadata) ==
  [i \in DOMAIN messages |->
     [server_name |-> metadata.serverName,
      server_id |-> metadata.serverId,
      channel_name |-> metadata.channelName,
      channel_id |-> metadata.channelId,
      data |-> JsonStringify(MessageObject(messages[i]))]]

\* a row whose fields are joined as they are
rowToCSVPlain(row) ==
  Join(<<row.server_name, row.server_id, row.channel_name, row.channel_id,
         row.data>>, <<Comma>>)

\* CSVProcessor.rowToCSV
rowToCSV(row) ==
  Join(<<escapeCSVField(row.server_name), escapeCSVField(row.server_id),
         escapeCSVField(row.channel_name), escapeCSVField(row.channel_id),
         escapeCSVField(row.data)>>, <<Comma>>)

\* rows that are joined without the newline after the last one
CsvContentUnterminated(batch, metadata) ==
  LET csvRows == convertToCsvRows(batch, metadata) IN
  Join([i \in DOMAIN csvRows |-> rowToCSV(csvRows[i])], <<Newline>>)

\* csvRows.map((row) => this.rowToCSV(row)).join("\n") + "\n"
CsvContent(batch, metadata) ==
  LET csvRows == convertToCsvRows(batch, metadata) IN
  Join([i \in DOMAIN csvRows |-> rowToCSV(csvRows[i])], <<Newline>>)
    \o <<Newline>>

\* messages.slice(i, Math.min(i + BATCH_INSERT_SIZE, messages.length)), i
\* counting from 0
SliceBatch(messages, i) ==
  SubSeq(messages, i + 1, Min(i + BATCH_INSERT_SIZE, Len(messages)))

\* channel ids, and the id of the server
ChannelOne == <<"7">>
ChannelTwo == <<"8">>
ChannelIds == {ChannelOne, ChannelTwo}
ServerId == <<"5">>

\* an exports directory without artifacts
NoFiles == [c \in ChannelIds |-> <<>>]

MsgNotInitialized ==
  <<"C", "S", "V", " ", "f", "i", "l", "e", " ", "n", "o", "t", " ", "i", "n", "i", "t", "i", "a", "l", "i", "z", "e", "d">>
MsgIoFailed == <<"E", "I", "O">>

\* `Batch ${Math.floor(i / BATCH_INSERT_SIZE) + 1}: ${batchErrorMsg}`
BatchErrorMsg(n, msg) ==
  <<"B", "a", "t", "c", "h", " ">> \o DigitsOf(n) \o <<":", " ">> \o msg

NoCall == [kind |-> "none", error |-> <<>>]
CallReturned == [kind |-> "returned", error |-> <<>>]
CallThrew(msg) == [kind |-> "thrown", error |-> msg]

NoAppend == [kind |-> "none", appended |-> 0, errors |-> <<>>, error |-> <<>>]
\* an appendMessages that throws the first batch error instead of returning it
AppendRaised(n, errs) ==
  IF errs = <<>>
  THEN [kind |-> "returned", appended |-> n, errors |-> errs, error |-> <<>>]
  ELSE [kind |-> "thrown", appended |-> 0, errors |-> <<>>, error |-> errs[1]]

AppendReturned(n, errs) ==
  [kind |-> "returned", appended |-> n, errors |-> errs, error |-> <<>>]
AppendThrew(msg) ==
  [kind |-> "thrown", appended |-> 0, errors |-> <<>>, error |-> msg]

\* appendMessages(messages, metadata) was called and the appendFileSync of
\* the batches numbered in fails threw
AppendCall(messages, metadata, fails) ==
  [messages |-> messages, metadata |-> metadata, fails |-> fails]
NoAppendCall ==
  AppendCall(<<>>, ServerMetadata(<<>>, <<>>, <<>>, <<>>), {})

(* ------------------------------------------------------------------ *)
(* Tuples of the state                                                 *)
(* ------------------------------------------------------------------ *)
cfgVars == <<feedSize, maxMessages, timestampStart, timestampEnd, timing,
             channelId>>
csvVars == <<files, csvFilePath, initResult, appendResult, appendCall,
             appendedRows, runs>>
clockVars == <<now, requestTimes, wakeAt, admits>>
retryVars == <<attempt, lastError, outcomes, sleeps, suspended, result>>
scrapeVars == <<allMessages, errors, hasMore, before, totalFetched, cursors,
                response, delays>>
escVars == <<payload, field>>
Callers == 1..NumCallers
callerVars == <<callerPc, callerWake, overlapped>>
vars == <<cfgVars, clockVars, retryVars, scrapeVars, csvVars, escVars,
          callerVars, calls, pc>>

NoResult == [kind |-> "none", value |-> Response(FALSE, 0, <<>>),
             error |-> Thrown(TRUE, <<>>)]
Returned(v) == [kind |-> "returned", value |-> v, error |-> Thrown(TRUE, <<>>)]
Threw(e) == [kind |-> "thrown", value |-> Response(FALSE, 0, <<>>), error |-> e]

Lateness == IF timing = "loose" THEN {0, TimerLate} ELSE {0}
Latencies == IF timing = "loose" THEN {0, OpLatency} ELSE {0}

(* ------------------------------------------------------------------ *)
(* RateLimiter                                                         *)
(* ------------------------------------------------------------------ *)
\* waitForRateLimit up to its await (or to its end when it does not wait)
WaitForRateLimit ==
  /\ pc = "admit"
  /\ LET pruned == PruneWindow(requestTimes, now) IN
     IF WindowFull(pruned) /\ WaitTime(pruned, now) > 0
     THEN /\ requestTimes' = pruned
          /\ wakeAt' = now + WaitTime(pruned, now)
          /\ pc' = "rlwait"
          /\ UNCHANGED admits
     ELSE /\ requestTimes' = Append(pruned, now)
          /\ admits' = admits + 1
          /\ pc' = "op"
          /\ UNCHANGED wakeAt
  /\ UNCHANGED <<now, cfgVars, escVars, callerVars, csvVars, retryVars, scrapeVars, calls>>

\* waitForRateLimit after its await: this.requestTimes.push(Date.now())
RateLimitResume ==
  /\ pc = "rlwait"
  /\ \E late \in Lateness :
       /\ now' = wakeAt + late
       /\ requestTimes' = Append(requestTimes, now')
  /\ admits' = admits + 1
  /\ pc' = "op"
  /\ UNCHANGED <<wakeAt, cfgVars, escVars, callerVars, csvVars, retryVars, scrapeVars, calls>>

\* a call of executeWithRetry starts: lastError = null, attempt = 1
BeginExecute ==
  /\ attempt' = 1
  /\ lastError' = <<>>
  /\ outcomes' = <<>>
  /\ sleeps' = <<>>
  /\ suspended' = 0
  /\ result' = NoResult

OutReturn(v) == [kind |-> "return", value |-> v, error |-> Thrown(TRUE, <<>>)]
OutThrow(e) == [kind |-> "throw", value |-> Response(FALSE, 0, <<>>), error |-> e]

\* executeWithRetry from `return await fn()` to its next await or its end:
\* fn takes lat ms and ends as o says; control goes to retPc when
\* executeWithRetry returns and to throwPc when it throws
ExecuteAttempt(o, lat, retPc, throwPc) ==
  /\ pc = "op"
  /\ now' = now + lat
  /\ outcomes' = Append(outcomes, o)
  /\ IF o.kind = "return"
     THEN /\ result' = Returned(o.value)
          /\ pc' = retPc
          /\ UNCHANGED <<lastError, attempt, sleeps, wakeAt>>
     ELSE LET e == ToError(o.error) IN
          /\ lastError' = <<e>>
          /\ IF IsRateLimitError(e)
             THEN IF AttemptsRemain(attempt)
                  THEN /\ sleeps' = Append(sleeps, BackoffDelay(attempt))
                       /\ wakeAt' = now' + BackoffDelay(attempt)
                       /\ pc' = "backoff"
                       /\ UNCHANGED <<result, attempt>>
                  ELSE \* no delay: attempt++, and the loop goes on or ends
                       \* with throw lastError
                       /\ attempt' = attempt + 1
                       /\ IF LoopContinues(attempt + 1)
                          THEN /\ pc' = "admit"
                               /\ UNCHANGED result
                          ELSE /\ result' = Threw(e)
                               /\ pc' = throwPc
                       /\ UNCHANGED <<sleeps, wakeAt>>
             ELSE \* throw error
                  /\ result' = Threw(o.error)
                  /\ pc' = throwPc
                  /\ UNCHANGED <<attempt, sleeps, wakeAt>>
  /\ UNCHANGED <<requestTimes, admits, suspended, cfgVars, escVars, callerVars, csvVars>>

\* a retry that invokes the operation again without waitForRateLimit
BackoffDoneNoAdmit(throwPc) ==
  /\ pc = "backoff"
  /\ \E late \in Lateness :
       /\ now' = wakeAt + late
       /\ suspended' = suspended + (now' - now)
  /\ attempt' = attempt + 1
  /\ IF LoopContinues(attempt + 1)
     THEN /\ pc' = "op"
          /\ UNCHANGED result
     ELSE /\ result' = Threw(lastError[1])
          /\ pc' = throwPc
  /\ UNCHANGED <<requestTimes, wakeAt, admits, lastError, outcomes, sleeps,
                 cfgVars, escVars, callerVars, csvVars>>

\* the backoff delay ends: attempt++, and the loop goes on or ends with
\* throw lastError
BackoffDone(throwPc) ==
  /\ pc = "backoff"
  /\ \E late \in Lateness :
       /\ now' = wakeAt + late
       /\ suspended' = suspended + (now' - now)
  /\ attempt' = attempt + 1
  /\ IF LoopContinues(attempt + 1)
     THEN /\ pc' = "admit"
          /\ UNCHANGED result
     ELSE /\ result' = Threw(lastError[1])
          /\ pc' = throwPc
  /\ UNCHANGED <<requestTimes, wakeAt, admits, lastError, outcomes, sleeps,
                 cfgVars, escVars, callerVars, csvVars>>

(* ------------------------------------------------------------------ *)
(* A direct caller of executeWithRetry                                 *)
(* ------------------------------------------------------------------ *)
OpValues == {Response(TRUE, HTTP_OK, <<Message(k, k)>>) : k \in 1..2}

\* Error objects, and two bare strings
OpThrows ==
  {Thrown(TRUE, m) : m \in {MsgRateLimited, MsgTooMany, MsgFetchFailed, MsgTimeout}}
    \cup {Thrown(FALSE, Txt429), Thrown(FALSE, MsgFetchFailed)}

OpOutcomes == {OutReturn(v) : v \in OpValues} \cup {OutThrow(e) : e \in OpThrows}

\* the caller calls executeWithRetry(fn, name)
StartCall ==
  /\ pc \in {"idle", "returned", "thrown"}
  /\ calls < MaxCalls
  /\ calls' = calls + 1
  /\ BeginExecute
  /\ pc' = "admit"
  /\ UNCHANGED <<clockVars, cfgVars, escVars, callerVars, csvVars, scrapeVars>>

\* fn runs and executeWithRetry handles what it did
OpAttempt ==
  /\ \E o \in OpOutcomes, lat \in Latencies :
       ExecuteAttempt(o, lat, "returned", "thrown")
  /\ UNCHANGED <<scrapeVars, calls>>

\* the caller's executeWithRetry resumes after a backoff delay
OpBackoffDone ==
  /\ BackoffDone("thrown")
  /\ UNCHANGED <<scrapeVars, calls>>

\* no scrape is configured
InitNoConfig ==
  /\ channelId = ChannelOne
  /\ feedSize = 0
  /\ maxMessages = 0
  /\ timestampStart = NoBound
  /\ timestampEnd = NoBound

\* nothing has run yet
InitFresh ==
  /\ attempt = 0
  /\ lastError = <<>>
  /\ outcomes = <<>>
  /\ sleeps = <<>>
  /\ suspended = 0
  /\ result = NoResult
  /\ calls = 0
  /\ allMessages = <<>>
  /\ errors = <<>>
  /\ hasMore = TRUE
  /\ before = <<>>
  /\ totalFetched = 0
  /\ cursors = <<>>
  /\ callerPc = [c \in Callers |-> "idle"]
  /\ callerWake = [c \in Callers |-> 0]
  /\ overlapped = FALSE
  /\ delays = 0
  /\ files = NoFiles
  /\ csvFilePath = <<>>
  /\ initResult = NoCall
  /\ appendResult = NoAppend
  /\ appendCall = NoAppendCall
  /\ appendedRows = [ch \in ChannelIds |-> 0]
  /\ runs = 0

\* nothing is being serialized
InitNoPayload ==
  /\ payload = <<>>
  /\ field = <<>>

\* no fetch has resolved yet
InitNoResponse == response = Response(FALSE, 0, <<>>)

\* the window ten requests paced PAGINATION_DELAY_MS apart leave behind
PacedWindow(t) ==
  [i \in 1..REQUESTS_PER_SECOND |->
     t - (REQUESTS_PER_SECOND - i) * PAGINATION_DELAY_MS]

\* the RateLimiter is new, or has served earlier requests
InitWindow ==
  /\ now = 0
  /\ requestTimes \in {<<>>, PacedWindow(0)}
  /\ admits = Len(requestTimes)
  /\ wakeAt = 0

InitRetry ==
  /\ InitNoConfig
  /\ timing = "loose"
  /\ InitFresh
  /\ InitNoPayload
  /\ InitNoResponse
  /\ InitWindow
  /\ pc = "idle"

NextRetry ==
  \/ StartCall
  \/ WaitForRateLimit
  \/ RateLimitResume
  \/ OpAttempt
  \/ OpBackoffDone

SpecRetry == InitRetry /\ [][NextRetry]_vars

(* ------------------------------------------------------------------ *)
(* A direct caller of waitForRateLimit                                 *)
(* ------------------------------------------------------------------ *)
\* the caller issues its next request, at once or OpLatency ms later
AdmitCall ==
  /\ pc \in {"idle", "op"}
  /\ calls < MaxRequests
  /\ calls' = calls + 1
  /\ \E gap \in Latencies : now' = now + gap
  /\ pc' = "admit"
  /\ UNCHANGED <<requestTimes, wakeAt, admits, cfgVars, escVars, callerVars, csvVars, retryVars, scrapeVars>>

InitRate ==
  /\ InitNoConfig
  /\ timing = "loose"
  /\ InitFresh
  /\ InitNoPayload
  /\ InitNoResponse
  /\ now = 0
  /\ requestTimes = <<>>
  /\ admits = 0
  /\ wakeAt = 0
  /\ pc = "idle"

NextRate ==
  \/ AdmitCall
  \/ WaitForRateLimit
  \/ RateLimitResume

SpecRate == InitRate /\ [][NextRate]_vars

(* ------------------------------------------------------------------ *)
(* Callers that share one RateLimiter                                  *)
(* ------------------------------------------------------------------ *)
\* caller c calls waitForRateLimit, at once or OpLatency ms later, and runs
\* up to its await (or to its end when it does not wait)
CallerWaitForRateLimit(c) ==
  /\ pc = "callers"
  /\ callerPc[c] = "idle"
  /\ calls < MaxCallerCalls
  /\ calls' = calls + 1
  /\ \E gap \in Latencies :
       /\ now' = now + gap
       /\ LET pruned == PruneWindow(requestTimes, now') IN
          IF WindowFull(pruned) /\ WaitTime(pruned, now') > 0
          THEN /\ requestTimes' = pruned
               /\ callerWake' = [callerWake EXCEPT ![c] = now' + WaitTime(pruned, now')]
               /\ callerPc' = [callerPc EXCEPT ![c] = "rlwait"]
               /\ UNCHANGED admits
          ELSE /\ requestTimes' = Append(pruned, now')
               /\ admits' = admits + 1
               /\ UNCHANGED <<callerPc, callerWake>>
  /\ overlapped' = (Cardinality({d \in Callers : callerPc'[d] = "rlwait"}) >= 2)
  /\ UNCHANGED <<wakeAt, pc, cfgVars, escVars, csvVars, retryVars, scrapeVars>>

\* caller c resumes after its await: this.requestTimes.push(Date.now()),
\* with no second look at the window
CallerResume(c) ==
  /\ pc = "callers"
  /\ callerPc[c] = "rlwait"
  /\ \E late \in Lateness :
       /\ now' = IF now >= callerWake[c] + late THEN now
                 ELSE callerWake[c] + late
       /\ requestTimes' = Append(requestTimes, now')
  /\ admits' = admits + 1
  /\ callerPc' = [callerPc EXCEPT ![c] = "idle"]
  /\ UNCHANGED <<callerWake, overlapped, wakeAt, calls, pc, cfgVars, escVars, csvVars, retryVars, scrapeVars>>

InitDual ==
  /\ InitNoConfig
  /\ timing = "loose"
  /\ InitFresh
  /\ InitNoPayload
  /\ InitNoResponse
  /\ InitWindow
  /\ pc = "callers"

NextDual ==
  \/ \E c \in Callers : CallerWaitForRateLimit(c)
  \/ \E c \in Callers : CallerResume(c)

SpecDual == InitDual /\ [][NextDual]_vars

(* ------------------------------------------------------------------ *)
(* DiscordScraper.scrapeChannel                                        *)
(* ------------------------------------------------------------------ *)
RECURSIVE JoinErrors(_)
\* validation.errors.join("; ")
JoinErrors(es) ==
  IF Len(es) = 0 THEN <<>>
  ELSE IF Len(es) = 1 THEN es[1]
  ELSE es[1] \o <<";", " ">> \o JoinErrors(Tail(es))

\* fetchMessageBatch is called: it builds the URL from paginationState.before
\* and calls executeWithRetry
CallFetch ==
  /\ cursors' = Append(cursors, before)
  /\ BeginExecute
  /\ pc' = "admit"

\* setupAuthentication: the session loads and the token is valid, or it throws
Authenticate ==
  /\ pc = "init"
  /\ \E o \in {"ok", "nofile", "invalid"} :
       IF o = "ok"
       THEN /\ pc' = "validate"
            /\ UNCHANGED errors
       ELSE /\ errors' = Append(errors, IF o = "nofile" THEN MsgTokenFileNotFound
                                        ELSE MsgTokenNotValid)
            /\ pc' = "failed"
  /\ UNCHANGED <<cfgVars, escVars, callerVars, csvVars, clockVars, retryVars, calls, allMessages, hasMore,
                 before, totalFetched, cursors, response, delays>>

\* a validation whose failure is recorded but does not abort the run
ValidateIgnored ==
  /\ pc = "validate"
  /\ \E sessionOk \in BOOLEAN, channelOk \in BOOLEAN :
       LET verrs == (IF sessionOk THEN <<>> ELSE <<MsgSessionFailed>>)
                      \o (IF channelOk THEN <<>> ELSE <<MsgChannelFailed>>)
       IN /\ CallFetch
          /\ errors' = errors \o verrs
  /\ UNCHANGED <<cfgVars, escVars, callerVars, csvVars, clockVars, calls, allMessages, hasMore, before,
                 totalFetched, response, delays>>

\* fullValidation and what scrapeChannel does with it; when it is valid the
\* loop is entered and the first batch is asked for
Validate ==
  /\ pc = "validate"
  /\ \E sessionOk \in BOOLEAN, channelOk \in BOOLEAN :
       LET verrs == (IF sessionOk THEN <<>> ELSE <<MsgSessionFailed>>)
                      \o (IF channelOk THEN <<>> ELSE <<MsgChannelFailed>>)
       IN IF Len(verrs) = 0
          THEN /\ CallFetch
               /\ UNCHANGED errors
          ELSE /\ errors' = (errors \o verrs)
                              \o <<MsgValidationFailed \o JoinErrors(verrs)>>
               /\ pc' = "failed"
               /\ UNCHANGED <<retryVars, cursors>>
  /\ UNCHANGED <<cfgVars, escVars, callerVars, csvVars, clockVars, calls, allMessages, hasMore, before,
                 totalFetched, response, delays>>

\* what the messages endpoint may do with one request
FetchOutcomes ==
  {OutReturn(Response(TRUE, HTTP_OK,
                      FeedPage(feedSize, before, MESSAGE_LIMITS_MAX)))}
    \cup {OutReturn(Response(FALSE, st, <<>>)) :
            st \in {HTTP_TOO_MANY_REQUESTS, HTTP_INTERNAL_SERVER_ERROR}}
    \cup {OutThrow(Thrown(TRUE, m)) : m \in {MsgFetchFailed, MsgRateLimited}}

\* the fetch of fetchMessageBatch inside executeWithRetry; an error that
\* executeWithRetry throws goes through fetchMessageBatch to the catch
\* of scrapeChannel
FetchAttempt ==
  /\ \E o \in FetchOutcomes, lat \in Latencies :
       /\ ExecuteAttempt(o, lat, "returned", "failed")
       /\ response' = IF o.kind = "return" THEN o.value ELSE response
  /\ IF pc' = "failed"
     THEN errors' = Append(errors, ErrorMsg(result'.error))
     ELSE UNCHANGED errors
  /\ UNCHANGED <<calls, allMessages, hasMore, before, totalFetched, cursors,
                 delays>>

\* executeWithRetry resumes after a backoff delay, inside fetchMessageBatch
FetchBackoffDone ==
  /\ BackoffDone("failed")
  /\ IF pc' = "failed"
     THEN errors' = Append(errors, ErrorMsg(result'.error))
     ELSE UNCHANGED errors
  /\ UNCHANGED <<calls, allMessages, hasMore, before, totalFetched, cursors,
                 response, delays>>

\* an empty page that does not end the loop
OnEmptyBatchContinue ==
  /\ wakeAt' = now + PAGINATION_DELAY_MS
  /\ pc' = "delay"
  /\ UNCHANGED <<allMessages, errors, before, totalFetched, hasMore>>

\* an empty page that is taken for a failure
OnEmptyBatchError ==
  /\ errors' = Append(errors, MsgFetchFailed)
  /\ pc' = "failed"
  /\ UNCHANGED <<allMessages, hasMore, before, totalFetched, wakeAt>>

\* an empty page that the loop neither takes for the end nor leaves behind
OnEmptyBatchIgnored ==
  UNCHANGED <<pc, allMessages, errors, hasMore, before, totalFetched, wakeAt>>

\* batch.length === 0: the feed is exhausted, the loop breaks
OnEmptyBatch ==
  /\ hasMore' = FALSE
  /\ pc' = "done"
  /\ UNCHANGED <<allMessages, errors, before, totalFetched, wakeAt>>

\* fetchMessageBatch after executeWithRetry returned, and the body of the
\* loop of scrapeChannel up to its delay
ReceiveBatch ==
  /\ pc = "returned"
  /\ IF ~response.ok
     THEN /\ errors' = Append(errors, StatusMsg(response.status))
          /\ pc' = "failed"
          /\ UNCHANGED <<allMessages, hasMore, before, totalFetched, wakeAt>>
     ELSE LET batch == response.body IN
          IF Len(batch) = 0
          THEN OnEmptyBatch
          ELSE LET filteredBatch ==
                     filterByTimestamp(batch, ParseBound(timestampStart),
                                       ParseBound(timestampEnd))
                   pushed == allMessages \o filteredBatch
               IN /\ totalFetched' = totalFetched + Len(batch)
                  /\ before' = NextCursor(batch)
                  /\ UNCHANGED errors
                  /\ IF CapReached(maxMessages, Len(pushed))
                     THEN /\ allMessages' = Splice(pushed, maxMessages)
                          /\ hasMore' = FALSE
                          /\ pc' = "done"
                          /\ UNCHANGED wakeAt
                     ELSE /\ allMessages' = pushed
                          /\ wakeAt' = now + PAGINATION_DELAY_MS
                          /\ pc' = "delay"
                          /\ UNCHANGED hasMore
  /\ UNCHANGED <<cfgVars, escVars, callerVars, csvVars, now, requestTimes, admits, retryVars, calls, cursors,
                 response, delays>>

\* a loop that asks for the next batch without the pagination delay
PaginationDelaySkipped ==
  /\ pc = "delay"
  /\ hasMore
  /\ CallFetch
  /\ UNCHANGED <<cfgVars, escVars, callerVars, csvVars, now, requestTimes, wakeAt, admits,
                 calls, allMessages, errors, hasMore, before, totalFetched,
                 response, delays>>

\* the pagination delay ends and the loop asks for the next batch
PaginationDelay ==
  /\ pc = "delay"
  /\ hasMore
  /\ \E late \in Lateness : now' = wakeAt + late
  /\ delays' = delays + 1
  /\ CallFetch
  /\ UNCHANGED <<cfgVars, escVars, callerVars, csvVars, requestTimes, wakeAt, admits, calls, allMessages,
                 errors, hasMore, before, totalFetched, response>>

\* a result that reports the messages fetched instead of the messages kept
ScraperResultFetched(msgs, errs) ==
  [messages |-> msgs, totalScraped |-> totalFetched, totalAppended |-> 0,
   errors |-> errs]

\* the ScraperResult of both return statements of scrapeChannel
ScraperResult(msgs, errs) ==
  [messages |-> msgs, totalScraped |-> Len(msgs), totalAppended |-> 0,
   errors |-> errs]

\* what scrapeChannel returns once its loop has ended ("done") or its catch
\* block has run ("failed")
scrapeResult == ScraperResult(allMessages, errors)

\* an empty channel, small ones, and channels of one to MaxPages pages
FeedSizes ==
  {0, 1, 10} \cup
    {p * MESSAGE_LIMITS_MAX + r : p \in 1..(MaxPages - 1), r \in {0, 1, 50}}

MaxMessagesChoices == {0, 1, 100, 150, 1000}
StartChoices == {NoBound, BoundAt(8)}
EndChoices == {NoBound, BoundAt(130)}

Init ==
  /\ channelId = ChannelOne
  /\ feedSize \in FeedSizes
  /\ maxMessages \in MaxMessagesChoices
  /\ timestampStart \in StartChoices
  /\ timestampEnd \in EndChoices
  /\ timing = "exact"
  /\ InitFresh
  /\ InitNoPayload
  /\ InitNoResponse
  /\ InitWindow
  /\ pc = "init"

Next ==
  \/ Authenticate
  \/ Validate
  \/ WaitForRateLimit
  \/ RateLimitResume
  \/ FetchAttempt
  \/ FetchBackoffDone
  \/ ReceiveBatch
  \/ PaginationDelay

Spec == Init /\ [][Next]_vars

\* a run whose waits all end: every timer that was set fires (the delay of
\* waitForRateLimit, the backoff delay, the pagination delay), every fetch
\* resolves or rejects, and the code between two awaits runs
Fairness ==
  /\ WF_vars(Authenticate)
  /\ WF_vars(Validate)
  /\ WF_vars(WaitForRateLimit)
  /\ WF_vars(RateLimitResume)
  /\ WF_vars(FetchAttempt)
  /\ WF_vars(FetchBackoffDone)
  /\ WF_vars(ReceiveBatch)
  /\ WF_vars(PaginationDelay)

SpecLive == Spec /\ Fairness

(* ------------------------------------------------------------------ *)
(* filterByTimestamp on its own                                        *)
(* ------------------------------------------------------------------ *)
\* the batches of at most MaxBatch messages, newest first
Batches ==
  UNION {{[k \in 1..n |-> Message(n + 1 - k, f[k])] : f \in [1..n -> 0..MaxTs]} :
           n \in 0..MaxBatch}

FilterBounds == {NoBound, GarbageBound} \cup {BoundAt(t) : t \in 0..MaxTs}

\* the timestamps are parsed and one batch is filtered and pushed
ApplyFilter ==
  /\ pc = "filter"
  /\ allMessages' = allMessages \o
                      filterByTimestamp(response.body, ParseBound(timestampStart),
                                        ParseBound(timestampEnd))
  /\ pc' = "filtered"
  /\ UNCHANGED <<cfgVars, escVars, callerVars, csvVars, clockVars, retryVars, calls, errors, hasMore, before,
                 totalFetched, cursors, response, delays>>

InitFilter ==
  /\ channelId = ChannelOne
  /\ feedSize = 0
  /\ maxMessages = 0
  /\ timestampStart \in FilterBounds
  /\ timestampEnd \in FilterBounds
  /\ timing = "exact"
  /\ InitFresh
  /\ InitNoPayload
  /\ response \in {Response(TRUE, HTTP_OK, b) : b \in Batches}
  /\ now = 0
  /\ requestTimes = <<>>
  /\ admits = 0
  /\ wakeAt = 0
  /\ pc = "filter"

NextFilter == ApplyFilter

SpecFilter == InitFilter /\ [][NextFilter]_vars

(* ------------------------------------------------------------------ *)
(* CSVProcessor                                                        *)
(* ------------------------------------------------------------------ *)
\* the content of the file at a path (a path is named by its channel)
FileAt(fs, path) == IF fs[path] = <<>> THEN <<>> ELSE fs[path][1]

\* fs.existsSync(outputDir): the directory exists when it holds a file
DirMayBeMissing == \A c \in ChannelIds : files[c] = <<>>

\* how the file system calls of initializeCSV may end: all succeed, mkdirSync
\* throws, or writeFileSync throws
InitOutcomes(ch) ==
  {"ok"} \cup (IF DirMayBeMissing THEN {"mkdir"} ELSE {})
         \cup (IF files[ch] = <<>> THEN {"write"} ELSE {})

\* an initializeCSV that writes the header whether or not the file exists
WriteHeaderAlways(fs, ch) == [fs EXCEPT ![ch] = <<HeaderLine>>]

\* if (!fileExists) fs.writeFileSync(this.csvFilePath, headerLine + "\n")
WriteHeader(fs, ch) ==
  IF fs[ch] = <<>> THEN [fs EXCEPT ![ch] = <<HeaderLine>>] ELSE fs

\* initializeCSV(outputDir, channelId); control goes to retPc when it
\* returns and to throwPc when it throws
InitializeCSV(ch, o, retPc, throwPc) ==
  /\ o \in InitOutcomes(ch)
  /\ IF o = "mkdir"
     THEN /\ initResult' = CallThrew(MsgIoFailed)
          /\ pc' = throwPc
          /\ UNCHANGED <<csvFilePath, files>>
     ELSE /\ csvFilePath' = <<ch>>
          /\ IF o = "write"
             THEN /\ initResult' = CallThrew(MsgIoFailed)
                  /\ pc' = throwPc
                  /\ UNCHANGED files
             ELSE /\ files' = WriteHeader(files, ch)
                  /\ initResult' = CallReturned
                  /\ pc' = retPc

\* a batch loop that ends after its first batch
BatchLoopContinuesOnce(i, messages) == i < Len(messages) /\ i = 0

\* the test of the batch loop: i < messages.length
BatchLoopContinues(i, messages) == i < Len(messages)

RECURSIVE AppendLoop(_, _, _, _, _)
\* the batch loop of appendMessages from index i on: st holds the file
\* (created by the first append when it is missing), appendedCount and
\* errors; the appendFileSync of the batches numbered in fails throws
AppendLoop(st, messages, metadata, fails, i) ==
  IF ~BatchLoopContinues(i, messages) THEN st
  ELSE LET batch == SliceBatch(messages, i)
           n == (i \div BATCH_INSERT_SIZE) + 1
           after ==
             IF n \in fails
             THEN [st EXCEPT !.errors = Append(@, BatchErrorMsg(n, MsgIoFailed))]
             ELSE [file |-> <<(IF st.file = <<>> THEN <<>> ELSE st.file[1])
                               \o CsvContent(batch, metadata)>>,
                   appended |-> st.appended + Len(batch),
                   errors |-> st.errors]
       IN AppendLoop(after, messages, metadata, fails, i + BATCH_INSERT_SIZE)

\* the numbers of the batches of a list of messages
BatchNumbers(messages) ==
  1..((Len(messages) + BATCH_INSERT_SIZE - 1) \div BATCH_INSERT_SIZE)

\* appendMessages(messages, metadata); control goes to retPc when it returns
\* and to throwPc when it throws
AppendMessages(messages, metadata, fails, retPc, throwPc) ==
  /\ fails \subseteq BatchNumbers(messages)
  /\ appendCall' = AppendCall(messages, metadata, fails)
  /\ IF csvFilePath = <<>>
     THEN /\ appendResult' = AppendThrew(MsgNotInitialized)
          /\ pc' = throwPc
          /\ UNCHANGED <<files, appendedRows>>
     ELSE LET path == csvFilePath[1] IN
          \E st \in {AppendLoop([file |-> files[path], appended |-> 0,
                                 errors |-> <<>>], messages, metadata, fails, 0)} :
             /\ files' = [files EXCEPT ![path] = st.file]
             /\ appendedRows' = [appendedRows EXCEPT ![path] = @ + st.appended]
             /\ IF st.file = <<>>
                THEN \* fs.statSync throws: there is no file
                     /\ appendResult' = AppendThrew(MsgIoFailed)
                     /\ pc' = throwPc
                ELSE /\ appendResult' = AppendReturned(st.appended, st.errors)
                     /\ pc' = retPc

\* the characters String.prototype.trim removes that a text here may hold
Whitespace == {" ", Newline}

\* line.trim() !== ""
TrimNotEmpty(line) == \E i \in DOMAIN line : line[i] \notin Whitespace

\* a row count that takes the header for a row
getCSVStatsWithHeader(fs, path) ==
  IF path = <<>> THEN [exists |-> FALSE, rowCount |-> 0]
  ELSE IF fs[path[1]] = <<>> THEN [exists |-> FALSE, rowCount |-> 0]
  ELSE [exists |-> TRUE,
        rowCount |-> Len(SelectSeq(SplitOn(fs[path[1]][1], Newline), TrimNotEmpty))]

\* CSVProcessor.getCSVStats: exists and rowCount, for the processor whose
\* csvFilePath is path
getCSVStats(fs, path) ==
  IF path = <<>> THEN [exists |-> FALSE, rowCount |-> 0]
  ELSE IF fs[path[1]] = <<>> THEN [exists |-> FALSE, rowCount |-> 0]
  ELSE [exists |-> TRUE,
        rowCount |-> Len(SelectSeq(SplitOn(fs[path[1]][1], Newline), TrimNotEmpty)) - 1]

(* ------------------------------------------------------------------ *)
(* A direct caller of CSVProcessor                                     *)
(* ------------------------------------------------------------------ *)
\* the newest n messages of a channel of n messages
Newest(n) == [k \in 1..n |-> Message(n + 1 - k, TimestampOfId(n + 1 - k))]

\* message lists of no, one and two batches
CsvInputs == {Newest(n) : n \in {0, 1, BATCH_INSERT_SIZE + 1}}

\* the name of the server of a channel: not known, or a name with a comma
CsvServerName(ch) == IF ch = ChannelOne THEN NameUnknown ELSE <<"a", ",", "b">>

\* the caller calls initializeCSV for a channel
CsvInitialize ==
  /\ pc = "csv"
  /\ calls < MaxCsvCalls
  /\ calls' = calls + 1
  /\ \E ch \in ChannelIds : \E o \in InitOutcomes(ch) :
       InitializeCSV(ch, o, "csv", "csv")
  /\ UNCHANGED <<cfgVars, escVars, callerVars, clockVars, retryVars, scrapeVars, appendResult, appendCall,
                 appendedRows, runs>>

\* the caller calls appendMessages
CsvAppend ==
  /\ pc = "csv"
  /\ calls < MaxCsvCalls
  /\ calls' = calls + 1
  /\ \E messages \in CsvInputs :
       \E fails \in SUBSET BatchNumbers(messages),
          ch \in {IF csvFilePath = <<>> THEN ChannelOne ELSE csvFilePath[1]} :
         AppendMessages(messages,
                        ServerMetadata(CsvServerName(ch), ServerId, NameUnknown, ch),
                        fails, "csv", "csv")
  /\ UNCHANGED <<cfgVars, escVars, callerVars, clockVars, retryVars, scrapeVars, csvFilePath,
                 initResult, runs>>

\* a later run: new CSVProcessor(logger)
CsvNewProcessor ==
  /\ pc = "csv"
  /\ runs < MaxProcessors
  /\ runs' = runs + 1
  /\ csvFilePath' = <<>>
  /\ initResult' = NoCall
  /\ appendResult' = NoAppend
  /\ appendCall' = NoAppendCall
  /\ UNCHANGED <<cfgVars, escVars, callerVars, clockVars, retryVars, scrapeVars, files,
                 appendedRows, calls, pc>>

InitCsv ==
  /\ InitNoConfig
  /\ timing = "exact"
  /\ InitFresh
  /\ InitNoPayload
  /\ InitNoResponse
  /\ now = 0
  /\ requestTimes = <<>>
  /\ admits = 0
  /\ wakeAt = 0
  /\ pc = "csv"

NextCsv ==
  \/ CsvInitialize
  \/ CsvAppend
  \/ CsvNewProcessor

SpecCsv == InitCsv /\ [][NextCsv]_vars

(* ------------------------------------------------------------------ *)
(* main: one export run after the other                                *)
(* ------------------------------------------------------------------ *)
\* serverInfo?.name || "Unknown", channelInfo?.name || "Unknown": the name
\* of the server is not known, the channel is called "n"
InfoNames == {<<NameUnknown, <<"n">>>>}

\* the appendFileSync calls of a run all succeed, or the first one throws
ExportFails(messages) == {{}} \cup (IF Len(messages) > 0 THEN {{1}} ELSE {})

\* main creates the CSVProcessor and calls initializeCSV for the channel
MainInitializeCSV ==
  /\ pc = "main"
  /\ \E o \in InitOutcomes(channelId) :
       InitializeCSV(channelId, o, "init", "fatal")
  /\ UNCHANGED <<cfgVars, escVars, callerVars, clockVars, retryVars, scrapeVars, appendResult, appendCall,
                 appendedRows, runs, calls>>

\* a main that appends the partial messages of a failed scrape before it exits
MainScrapeFailedAppends ==
  /\ pc = "failed"
  /\ \E names \in InfoNames :
       AppendMessages(allMessages,
                      ServerMetadata(names[1], ServerId, names[2], channelId),
                      {}, "exit1", "exit1")
  /\ UNCHANGED <<cfgVars, escVars, callerVars, clockVars, retryVars, scrapeVars, csvFilePath,
                 initResult, runs, calls>>

\* scrapeResult.errors.length > 0: process.exit(1)
MainScrapeFailed ==
  /\ pc = "failed"
  /\ pc' = "exit1"
  /\ UNCHANGED <<cfgVars, escVars, callerVars, clockVars, retryVars, scrapeVars, csvVars, calls>>

\* the names of the server and the channel are asked for and the messages
\* of the result are appended: process.exit(0), or the fatal error handler
MainAppend ==
  /\ pc = "done"
  /\ \E names \in InfoNames, fails \in ExportFails(allMessages) :
       AppendMessages(allMessages,
                      ServerMetadata(names[1], ServerId, names[2], channelId),
                      fails, "exit0", "fatal")
  /\ UNCHANGED <<cfgVars, escVars, callerVars, clockVars, retryVars, scrapeVars, csvFilePath,
                 initResult, runs, calls>>

\* the tool is run again for the same channel: a new process, whose clock
\* is read from its start, finds the exports directory as it was left
MainRerun ==
  /\ pc \in {"exit0", "exit1", "fatal"}
  /\ runs < MaxReruns
  /\ runs' = runs + 1
  /\ pc' = "main"
  /\ now' = 0
  /\ requestTimes' = <<>>
  /\ admits' = 0
  /\ wakeAt' = 0
  /\ attempt' = 0
  /\ lastError' = <<>>
  /\ outcomes' = <<>>
  /\ sleeps' = <<>>
  /\ suspended' = 0
  /\ result' = NoResult
  /\ allMessages' = <<>>
  /\ errors' = <<>>
  /\ hasMore' = TRUE
  /\ before' = <<>>
  /\ totalFetched' = 0
  /\ cursors' = <<>>
  /\ delays' = 0
  /\ response' = Response(FALSE, 0, <<>>)
  /\ csvFilePath' = <<>>
  /\ initResult' = NoCall
  /\ appendResult' = NoAppend
  /\ appendCall' = NoAppendCall
  /\ UNCHANGED <<cfgVars, escVars, callerVars, files, appendedRows, calls>>

\* main passes maxMessages = 1000; 0 is the default of scrapeChannel
ExportMaxMessages == {0, 1000}
ExportFeedSizes == {0, 1, 2 * MESSAGE_LIMITS_MAX + 50}

InitExport ==
  /\ channelId = ChannelOne
  /\ feedSize \in ExportFeedSizes
  /\ maxMessages \in ExportMaxMessages
  /\ timestampStart = NoBound
  /\ timestampEnd = NoBound
  /\ timing = "exact"
  /\ InitFresh
  /\ InitNoPayload
  /\ InitNoResponse
  /\ now = 0
  /\ requestTimes = <<>>
  /\ admits = 0
  /\ wakeAt = 0
  /\ pc = "main"

\* a run of main never fills the window of its own RateLimiter, so that
\* waitForRateLimit never waits in it
NextExport ==
  \/ MainInitializeCSV
  \/ Authenticate
  \/ Validate
  \/ WaitForRateLimit
  \/ FetchAttempt
  \/ FetchBackoffDone
  \/ ReceiveBatch
  \/ PaginationDelay
  \/ MainScrapeFailed
  \/ MainAppend
  \/ MainRerun

SpecExport == InitExport /\ [][NextExport]_vars

(* ------------------------------------------------------------------ *)
(* main: one run with the arguments main passes                        *)
(* ------------------------------------------------------------------ *)
\* the maxMessages main passes to scrapeChannel
MainMaxMessages == 1000

\* channels of as many messages as the cap, and of more
MainFeedSizes == {MainMaxMessages, MainMaxMessages + MESSAGE_LIMITS_MAX \div 2}

\* userInput.timestampEnd: none, or one that drops the newest five messages
\* of the larger channel
MainEndChoices == {NoBound, BoundAt(MainMaxMessages + 45)}

InitMain ==
  /\ channelId = ChannelOne
  /\ feedSize \in MainFeedSizes
  /\ maxMessages = MainMaxMessages
  /\ timestampStart = NoBound
  /\ timestampEnd \in MainEndChoices
  /\ timing = "exact"
  /\ InitFresh
  /\ InitNoPayload
  /\ InitNoResponse
  /\ now = 0
  /\ requestTimes = <<>>
  /\ admits = 0
  /\ wakeAt = 0
  /\ pc = "main"

\* a fetch of the run: the endpoint throttles the first MaxThrottledFetches
\* batch fetches only
MainFetchAttempt ==
  /\ FetchAttempt
  /\ pc' = "backoff" => Len(cursors) <= MaxThrottledFetches

NextMain ==
  \/ MainInitializeCSV
  \/ Authenticate
  \/ Validate
  \/ WaitForRateLimit
  \/ MainFetchAttempt
  \/ FetchBackoffDone
  \/ ReceiveBatch
  \/ PaginationDelay
  \/ MainScrapeFailed
  \/ MainAppend

SpecMain == InitMain /\ [][NextMain]_vars

(* ------------------------------------------------------------------ *)
(* The data field of one row                                           *)
(* ------------------------------------------------------------------ *)
\* the characters a value of a message may hold
ContentChars == {"a", Comma, Quote, Newline, Backslash}

\* the values of at most MaxContent characters
Contents == UNION {[1..n -> ContentChars] : n \in 0..MaxContent}

\* a message with an id and a content
PayloadObject(c) == <<<<KeyId, <<"1">>>>, <<KeyContent, c>>>>

\* convertToCsvRows and rowToCSV make the data field of the row:
\* escapeCSVField(JSON.stringify(msg))
SerializeField ==
  /\ pc = "serialize"
  /\ field' = <<escapeCSVField(JsonStringify(payload))>>
  /\ pc' = "serialized"
  /\ UNCHANGED <<payload, cfgVars, clockVars, retryVars, scrapeVars, csvVars,
                 callerVars, calls>>

InitEscape ==
  /\ InitNoConfig
  /\ timing = "exact"
  /\ InitFresh
  /\ InitNoResponse
  /\ payload \in {PayloadObject(c) : c \in Contents}
  /\ field = <<>>
  /\ now = 0
  /\ requestTimes = <<>>
  /\ admits = 0
  /\ wakeAt = 0
  /\ pc = "serialize"

NextEscape == SerializeField

SpecEscape == InitEscape /\ [][NextEscape]_vars

(* ------------------------------------------------------------------ *)
(* Properties                                                          *)
(* ------------------------------------------------------------------ *)
\* start <= t <= end, a bound that is not given imposing nothing
InRange(t, s, e) ==
  /\ (s.text = "" \/ s.ms <= t)
  /\ (e.text = "" \/ t <= e.ms)

\* the messages of the channel that pass the filter
TotalAvailable ==
  Cardinality({i \in 1..feedSize :
                 InRange(TimestampOfId(i), timestampStart, timestampEnd)})

\* the calls of fetchMessageBatch and the requests made for them
NoMoreFetch == cursors' = cursors /\ outcomes' = outcomes /\ admits' = admits

\* C1: with maxMessages = K > 0 a run that completes returns exactly
\* min(K, totalAvailable) messages for persisting, and once K kept messages
\* are accumulated no further batch fetch is issued, whatever the feed holds
C1_CapExact ==
  /\ []((pc = "done" /\ maxMessages > 0)
          => Len(allMessages) = Min(maxMessages, TotalAvailable))
  /\ [][(maxMessages > 0 /\ Len(allMessages) >= maxMessages) => NoMoreFetch]_vars

\* the cap cut the second page of a channel of three pages
C1_Witness ==
  /\ pc = "done"
  /\ feedSize = 250
  /\ maxMessages = 150
  /\ Len(allMessages) = 150
  /\ totalFetched = 200
  /\ Len(cursors) = 2

\* C2: a page of size 0 ends the run with hasMore = FALSE, and no batch
\* fetch is issued after the run has ended
C2_EmptyPageEnds ==
  /\ [][(pc = "returned" /\ response.ok /\ Len(response.body) = 0)
          => (pc' = "done" /\ ~hasMore' /\ NoMoreFetch)]_vars
  /\ [][pc = "done" => NoMoreFetch]_vars

\* the run ended on the empty page that follows two pages of messages
C2_Witness ==
  /\ pc = "done"
  /\ ~hasMore
  /\ response.ok
  /\ Len(response.body) = 0
  /\ Len(cursors) = 3
  /\ totalFetched = feedSize

\* C3: the `before` cursors of the successive batch fetches of a run are
\* strictly decreasing, so none repeats
C3_CursorsDecrease ==
  \A i \in DOMAIN cursors : \A j \in DOMAIN cursors :
    (i < j /\ cursors[i] # <<>> /\ cursors[j] # <<>>)
      => cursors[i][1] > cursors[j][1]

\* four fetches, the last three with a cursor
C3_Witness ==
  /\ Len(cursors) = 4
  /\ cursors[2] # <<>>
  /\ cursors[3] # <<>>
  /\ cursors[4] # <<>>

\* C4: no message id occurs twice in the messages of the returned result
C4_NoDuplicates ==
  (pc \in {"done", "failed"})
    => Cardinality({allMessages[i].id : i \in DOMAIN allMessages})
         = Len(allMessages)

\* a result of three pages
C4_Witness ==
  /\ pc = "done"
  /\ Len(allMessages) = 250
  /\ Len(cursors) = 4

\* C5: with bounds that are dates or not given, a fetched message is kept
\* iff start <= t <= end, both bounds inclusive, and all are kept when no
\* bound is given
C5_FilterInclusive ==
  (pc = "filtered" /\ timestampStart.text # "garbage"
     /\ timestampEnd.text # "garbage")
    => /\ \A k \in DOMAIN response.body :
            (\E i \in DOMAIN allMessages : allMessages[i] = response.body[k])
              <=> InRange(response.body[k].timestamp, timestampStart,
                          timestampEnd)
       /\ (timestampStart.text = "" /\ timestampEnd.text = "")
            => allMessages = response.body

\* of three messages only the one whose timestamp equals both bounds is kept
C5_Witness ==
  /\ pc = "filtered"
  /\ timestampStart = BoundAt(1)
  /\ timestampEnd = BoundAt(1)
  /\ Len(response.body) = 3
  /\ response.body[1].timestamp = 2
  /\ response.body[3].timestamp = 0
  /\ allMessages = <<response.body[2]>>

\* the slots of the window younger than WINDOW_MS at time t
YoungSlots(t) == {i \in DOMAIN requestTimes : t - requestTimes[i] < WINDOW_MS}

\* the oldest of them
OldestYoung(t) ==
  CHOOSE x \in {requestTimes[i] : i \in YoungSlots(t)} :
    \A i \in YoungSlots(t) : x <= requestTimes[i]

\* C6: the window never holds more than 10 timestamps younger than 1000 ms;
\* a caller that finds it full is suspended, reserving nothing, until the
\* oldest of them is 1000 ms old, and reserves its slot when it resumes
C6_WindowCap ==
  /\ [](Cardinality(YoungSlots(now)) <= REQUESTS_PER_SECOND)
  /\ [][(pc = "admit" /\ Cardinality(YoungSlots(now)) >= REQUESTS_PER_SECOND)
          => (/\ pc' = "rlwait"
              /\ admits' = admits
              /\ now' = now
              /\ wakeAt' = OldestYoung(now) + WINDOW_MS)]_vars
  /\ [][pc = "rlwait"
          => (/\ pc' = "op"
              /\ now' >= wakeAt
              /\ admits' = admits + 1
              /\ requestTimes' = Append(requestTimes, now'))]_vars

\* ten requests were admitted within the first second and the 11th waits
C6_Witness ==
  /\ pc = "rlwait"
  /\ calls = 11
  /\ admits = 10
  /\ now < WINDOW_MS
  /\ wakeAt = requestTimes[1] + WINDOW_MS

\* an invocation of fn that failed with a rate-limit signal
IsThrottled(o) == o.kind = "throw" /\ Includes(o.error.message, <<"4", "2", "9">>)

\* C7: throttled on attempts 1 and 2 and successful on attempt 3,
\* executeWithRetry returns the result of the third attempt after backoff
\* delays of 1000 ms and 2000 ms, 3000 ms of suspension at least
C7_ThirdAttempt ==
  (/\ pc = "returned"
   /\ Len(outcomes) = 3
   /\ IsThrottled(outcomes[1])
   /\ IsThrottled(outcomes[2])
   /\ outcomes[3].kind = "return")
    => /\ result = Returned(outcomes[3].value)
       /\ sleeps = <<1000, 2000>>
       /\ suspended >= 3000

\* two throttled attempts, then a page, with a late timer
C7_Witness ==
  /\ pc = "returned"
  /\ Len(outcomes) = 3
  /\ IsThrottled(outcomes[1])
  /\ IsThrottled(outcomes[2])
  /\ result.kind = "returned"
  /\ result.value = outcomes[3].value
  /\ suspended > 3000

\* C8 (as claimed): a run error for a 429 answer of the messages endpoint
\* is raised only after that batch fetch was tried MAX_RETRIES times
C8_RetriedBeforeSurfaced ==
  (/\ pc = "failed"
   /\ Len(errors) > 0
   /\ errors[Len(errors)] = StatusMsg(HTTP_TOO_MANY_REQUESTS))
    => Len(outcomes) = MAX_RETRIES

\* C9 (as claimed): when executeWithRetry throws an error that is no
\* rate-limit signal, fn was invoked exactly once, no backoff occurred, and
\* the error is the one fn threw
C9_InvokedOnce ==
  (pc = "thrown" /\ ~Includes(result.error.message, <<"4", "2", "9">>))
    => /\ Len(outcomes) = 1
       /\ sleeps = <<>>
       /\ suspended = 0
       /\ result.error = outcomes[1].error

\* C9 (amended): a failure that is no rate-limit signal is not retried: the
\* failing invocation is the last of the call, it is thrown on in the same
\* step, unchanged and without a backoff wait after it; every invocation
\* before it was throttled and followed by one backoff; so when it is the
\* first attempt, fn was invoked exactly once and no backoff occurred
C9_NotRetried ==
  /\ []((pc = "thrown" /\ ~Includes(result.error.message, <<"4", "2", "9">>))
          => /\ result.error = outcomes[Len(outcomes)].error
             /\ Len(sleeps) = Len(outcomes) - 1
             /\ \A k \in 1..(Len(outcomes) - 1) : IsThrottled(outcomes[k])
             /\ (Len(outcomes) = 1 => suspended = 0))
  /\ [][(pc' = "thrown" /\ pc # "thrown"
           /\ ~Includes(result'.error.message, <<"4", "2", "9">>))
          => (/\ pc = "op"
              /\ Len(outcomes') = Len(outcomes) + 1
              /\ sleeps' = sleeps
              /\ suspended' = suspended)]_vars
  /\ [][pc = "thrown" => (pc' = "admit" /\ outcomes' = <<>>)]_vars

\* throttled once, then a network failure, which is thrown on at once
C9_Witness ==
  /\ pc = "thrown"
  /\ Len(outcomes) = 2
  /\ IsThrottled(outcomes[1])
  /\ outcomes[2].error = Thrown(TRUE, MsgFetchFailed)
  /\ result.error = outcomes[2].error
  /\ sleeps = <<1000>>

\* C10: fn is invoked at most MAX_RETRIES (3) times per call, and when
\* every attempt is throttled the call throws an Error carrying the
\* message of the last attempt
C10_Ceiling ==
  /\ Len(outcomes) <= 3
  /\ (pc = "thrown" /\ \A k \in DOMAIN outcomes : IsThrottled(outcomes[k]))
       => /\ Len(outcomes) = 3
          /\ result.kind = "thrown"
          /\ result.error = Thrown(TRUE, outcomes[3].error.message)

\* three throttled attempts with different messages: the last one is thrown
C10_Witness ==
  /\ pc = "thrown"
  /\ Len(outcomes) = 3
  /\ outcomes[1].error.message = MsgRateLimited
  /\ outcomes[2].error.message = MsgRateLimited
  /\ outcomes[3].error.message = MsgTooMany
  /\ result.error.message = MsgTooMany

\* the messages of the first n pages of the channel that pass the filter,
\* newest first
KeptOfPages(n) ==
  LET cnt == Min(feedSize, n * MESSAGE_LIMITS_MAX)
      fetched == [k \in 1..cnt |->
                    Message(feedSize + 1 - k, TimestampOfId(feedSize + 1 - k))]
  IN SelectSeq(fetched, LAMBDA m : InRange(m.timestamp, timestampStart,
                                           timestampEnd))

\* the text of the failure that ended the last batch fetch
FailureText ==
  IF outcomes[Len(outcomes)].kind = "throw"
  THEN outcomes[Len(outcomes)].error.message
  ELSE StatusMsg(response.status)

\* C11: when a batch fetch fails for good after n pages were processed, the
\* run issues no further fetch and returns exactly the kept messages of
\* those n pages, in order, with the error message in errors
C11_PartialKept ==
  /\ []((pc = "failed" /\ Len(cursors) > 0)
          => /\ allMessages = KeptOfPages(Len(cursors) - 1)
             /\ errors = <<FailureText>>)
  /\ [][(pc' = "failed" /\ pc # "failed")
          => (/\ allMessages' = allMessages
              /\ cursors' = cursors
              /\ admits' = admits)]_vars
  /\ [][pc = "failed" => NoMoreFetch]_vars

\* the third batch fetch was answered with status 500 after two full pages
C11_Witness ==
  /\ pc = "failed"
  /\ feedSize = 250
  /\ timestampEnd = BoundAt(130)
  /\ Len(cursors) = 3
  /\ Len(allMessages) = 80
  /\ allMessages[1].id = 130
  /\ errors = <<StatusMsg(HTTP_INTERNAL_SERVER_ERROR)>>

\* C12: a run ends DONE with no error, reached only from the loop on an
\* empty page or on reaching the cap, or FAILED with errors, reached on and
\* only on a failure of authentication, validation or a fetch; neither is
\* ever left
C12_TerminalOutcomes ==
  /\ [](pc = "done" => errors = <<>>)
  /\ [](pc = "failed" => errors # <<>>)
  /\ [][(pc' = "done" /\ pc # "done")
          => (/\ pc = "returned"
              /\ response.ok
              /\ \/ Len(response.body) = 0
                 \/ (maxMessages > 0 /\ Len(allMessages') = maxMessages))]_vars
  /\ [][(pc' = "failed" /\ pc # "failed")
          => (\/ pc \in {"init", "validate"}
              \/ (pc \in {"op", "backoff"} /\ result'.kind = "thrown")
              \/ (pc = "returned" /\ ~response.ok))]_vars
  /\ [][(errors' # errors \/ (pc = "returned" /\ ~response.ok)) => pc' = "failed"]_vars
  /\ [][pc \notin {"done", "failed"}]_vars

\* one run ended on the cap without an empty page
C12_Witness ==
  /\ pc = "done"
  /\ errors = <<>>
  /\ maxMessages = 100
  /\ Len(response.body) = 100
  /\ Len(allMessages) = 100
  /\ Len(cursors) = 1

\* the errors of a failed authentication or validation
AccessErrors ==
  {MsgTokenNotValid, MsgTokenFileNotFound, MsgSessionFailed, MsgChannelFailed}

\* C13: when authentication or the validation of the channel access fails,
\* the run aborts at once: no batch fetch is issued, nothing is retried, and
\* the result holds no message and a non-empty errors list
C13_AbortBeforeFetch ==
  /\ []((\E i \in DOMAIN errors : errors[i] \in AccessErrors)
          => /\ pc = "failed"
             /\ cursors = <<>>
             /\ outcomes = <<>>
             /\ sleeps = <<>>
             /\ allMessages = <<>>
             /\ totalFetched = 0)
  /\ [][(pc \in {"init", "validate"} /\ pc' # "validate" /\ pc' # "admit")
          => (pc' = "failed" /\ errors' # errors /\ NoMoreFetch)]_vars

\* the token was valid but the channel could not be read
C13_Witness ==
  /\ pc = "failed"
  /\ errors = <<MsgChannelFailed, MsgValidationFailed \o MsgChannelFailed>>
  /\ cursors = <<>>
  /\ allMessages = <<>>

\* C15: a channel of 10 messages, the start bound right after the timestamp
\* of message 7, no end bound and no cap: the run keeps messages 8 to 10,
\* gets one page of messages, then the empty page, and ends without error
C15_TenMessages ==
  (/\ pc = "done"
   /\ feedSize = 10
   /\ timestampStart = BoundAt(TimestampOfId(7) + 1)
   /\ timestampEnd = NoBound
   /\ maxMessages = 0)
    => /\ allMessages = [k \in 1..3 |-> Message(11 - k, TimestampOfId(11 - k))]
       /\ totalFetched = 10
       /\ cursors = <<<<>>, <<1>>>>
       /\ Len(response.body) = 0
       /\ ~hasMore
       /\ errors = <<>>

\* that run has ended
C15_Witness ==
  /\ pc = "done"
  /\ feedSize = 10
  /\ timestampStart = BoundAt(8)
  /\ timestampEnd = NoBound
  /\ maxMessages = 0
  /\ Len(allMessages) = 3
  /\ allMessages[3].id = 8

\* C20: with maxMessages = 0 a run whose fetches all succeed returns every
\* message of the channel that passes the filter, in the order of the feed,
\* whatever the number of pages
C20_UnlimitedComplete ==
  (pc = "done" /\ maxMessages = 0)
    => /\ allMessages = KeptOfPages(MaxPages)
       /\ Len(allMessages) = TotalAvailable
       /\ totalFetched = feedSize

\* an unlimited run over three pages, cut by both bounds
C20_Witness ==
  /\ pc = "done"
  /\ maxMessages = 0
  /\ feedSize = 250
  /\ timestampStart = BoundAt(8)
  /\ timestampEnd = BoundAt(130)
  /\ Len(allMessages) = 123
  /\ Len(cursors) = 4

\* the lines of a text: its pieces between newlines that are not empty
LinesOf(text) == SelectSeq(SplitOn(text, Newline), LAMBDA l : l # <<>>)

\* the first run of the tool on a channel of 250 messages, without a
\* filter and with maxMessages = 0, has ended and every write succeeded
C14_Scenario ==
  /\ pc = "exit0"
  /\ runs = 0
  /\ feedSize = 250
  /\ maxMessages = 0
  /\ timestampStart = NoBound
  /\ timestampEnd = NoBound
  /\ appendResult.errors = <<>>

\* C14 (as claimed): in that scenario exactly 3 batch fetches were issued,
\* 250 messages were returned and the new artifact holds 251 lines
C14_ThreeFetches ==
  C14_Scenario
    => /\ Len(cursors) = 3
       /\ Len(allMessages) = 250
       /\ Len(LinesOf(FileAt(files, channelId))) = 251

\* C14 (amended): in that scenario exactly 4 batch fetches were issued, which
\* returned 100, 100, 50 and 0 messages; 250 messages were returned and
\* appended, and the new artifact holds 251 lines, the header and 250 rows
C14_FourFetches ==
  C14_Scenario
    => /\ cursors = <<<<>>, <<151>>, <<51>>, <<1>>>>
       /\ totalFetched = 250
       /\ response.body = <<>>
       /\ Len(allMessages) = 250
       /\ appendResult.appended = 250
       /\ Len(LinesOf(FileAt(files, channelId))) = 251
       /\ LinesOf(FileAt(files, channelId))[1] \o <<Newline>> = HeaderLine

\* that run has ended
C14_Witness ==
  /\ C14_Scenario
  /\ Len(cursors) = 4
  /\ appendResult = AppendReturned(250, <<>>)
  /\ files[ChannelTwo] = <<>>

\* a is the beginning of b
IsPrefix(a, b) == Len(a) <= Len(b) /\ SubSeq(b, 1, Len(a)) = a

\* C16: initializeCSV leaves an artifact that exists as it is, whatever the
\* number of calls, and writes nothing but the header to one that is missing
C16_InitIdempotent ==
  [][CsvInitialize
       => \A ch \in ChannelIds :
            /\ files[ch] # <<>> => files'[ch] = files[ch]
            /\ (files[ch] = <<>> /\ files'[ch] # <<>>)
                 => (files'[ch] = <<HeaderLine>> /\ csvFilePath' = <<ch>>)]_vars

\* a later CSVProcessor was initialized on an artifact that holds rows, and
\* nothing was appended since
C16_Witness ==
  /\ runs = 1
  /\ calls = 3
  /\ initResult = CallReturned
  /\ csvFilePath = <<ChannelOne>>
  /\ appendResult = NoAppend
  /\ IsPrefix(HeaderLine, FileAt(files, ChannelOne))
  /\ Len(LinesOf(FileAt(files, ChannelOne))) = 2

\* the header is the first line of the text and no other line equals it
HeaderFirstOnce(text) ==
  /\ IsPrefix(HeaderLine, text)
  /\ \E ls \in {LinesOf(text)} :
       \A i \in 2..Len(ls) : ls[i] \o <<Newline>> # HeaderLine

\* C18 (as claimed): after any sequence of initializeCSV and appendMessages
\* calls, across CSVProcessors, every artifact begins with the header, which
\* occurs once, and all that was written stays where it is
C18_AppendOnly ==
  /\ [](\A ch \in ChannelIds :
          files[ch] # <<>> => HeaderFirstOnce(files[ch][1]))
  /\ [][\A ch \in ChannelIds :
          files[ch] # <<>>
            => (files'[ch] # <<>> /\ IsPrefix(files[ch][1], files'[ch][1]))]_vars

\* the data field of a row: the quoted JSON text at its end
DataField(line) ==
  LET k == CHOOSE i \in DOMAIN line :
             line[i] = "{" /\ \A j \in 1..(i - 1) : line[j] # "{"
  IN SubSeq(line, k - 1, Len(line))

\* the rows of an artifact: its lines after the header
RowsOf(text) == Tail(LinesOf(text))

\* C19 (as claimed): whatever the number of runs for a channel, no message
\* is held by more than one row of its artifact
C19_NoDuplicateRows ==
  (pc \in {"exit0", "exit1", "fatal"} /\ files[channelId] # <<>>)
    => LET rows == RowsOf(files[channelId][1]) IN
       Cardinality({DataField(rows[i]) : i \in DOMAIN rows}) = Len(rows)

Failed == [ok |-> FALSE, val |-> <<>>, next |-> 0]
Parsed(v, n) == [ok |-> TRUE, val |-> v, next |-> n]

RECURSIVE Undouble(_, _)
\* the inside of a quoted CSV field from position i on, every "" standing
\* for one quote; a quote that stands alone is malformed
Undouble(s, i) ==
  IF i > Len(s) THEN Parsed(<<>>, i)
  ELSE IF s[i] # Quote
  THEN LET r == Undouble(s, i + 1) IN
       IF r.ok THEN Parsed(<<s[i]>> \o r.val, r.next) ELSE Failed
  ELSE IF i < Len(s) /\ s[i + 1] = Quote
  THEN LET r == Undouble(s, i + 2) IN
       IF r.ok THEN Parsed(<<Quote>> \o r.val, r.next) ELSE Failed
  ELSE Failed

\* the standard unquoting rule: a field in quotes stands for its inside with
\* the doubled quotes undoubled, any other field for itself
UnquoteCSVField(f) ==
  IF Len(f) >= 2 /\ f[1] = Quote /\ f[Len(f)] = Quote
  THEN Undouble(SubSeq(f, 2, Len(f) - 1), 1)
  ELSE IF HasChar(f, Quote) THEN Failed
  ELSE Parsed(f, Len(f) + 1)

RECURSIVE JsonStringBody(_, _)
\* a JSON string literal read from the character after its opening quote
JsonStringBody(s, i) ==
  IF i > Len(s) THEN Failed
  ELSE IF s[i] = Quote THEN Parsed(<<>>, i + 1)
  ELSE IF s[i] = Newline THEN Failed
  ELSE IF s[i] = Backslash
  THEN IF i = Len(s) \/ s[i + 1] \notin {Quote, Backslash, "n"} THEN Failed
       ELSE LET r == JsonStringBody(s, i + 2)
                c == IF s[i + 1] = "n" THEN Newline ELSE s[i + 1]
            IN IF r.ok THEN Parsed(<<c>> \o r.val, r.next) ELSE Failed
  ELSE LET r == JsonStringBody(s, i + 1) IN
       IF r.ok THEN Parsed(<<s[i]>> \o r.val, r.next) ELSE Failed

\* the literal at position i
JsonStringAt(s, i) ==
  IF i <= Len(s) /\ s[i] = Quote THEN JsonStringBody(s, i + 1) ELSE Failed

RECURSIVE JsonPairs(_, _)
\* "key":"value" pairs from position i up to the closing brace
JsonPairs(s, i) ==
  LET k == JsonStringAt(s, i) IN
  IF ~k.ok \/ k.next > Len(s) \/ s[k.next] # ":" THEN Failed
  ELSE LET v == JsonStringAt(s, k.next + 1) IN
       IF ~v.ok \/ v.next > Len(s) THEN Failed
       ELSE IF s[v.next] = "}"
       THEN (IF v.next = Len(s) THEN Parsed(<<<<k.val, v.val>>>>, v.next + 1)
             ELSE Failed)
       ELSE IF s[v.next] = Comma
       THEN LET r == JsonPairs(s, v.next + 1) IN
            IF r.ok THEN Parsed(<<<<k.val, v.val>>>> \o r.val, r.next) ELSE Failed
       ELSE Failed

\* JSON.parse of the text of an object whose values are strings
JsonParse(s) ==
  IF Len(s) >= 2 /\ s[1] = "{" THEN JsonPairs(s, 2) ELSE Failed

\* a data field read back: unquoted, then parsed
ReadField(f) ==
  LET u == UnquoteCSVField(f) IN IF u.ok THEN JsonParse(u.val) ELSE Failed

\* C17: a message turned into JSON text and escaped as the data field reads
\* back, by unquoting and parsing, as the message it was, commas, quotes and
\* newlines in its values included; the field is in quotes, holds no quote
\* that stands alone and no newline outside the quotes
C17_RoundTrip ==
  pc = "serialized"
    => /\ ReadField(field[1]).ok
       /\ ReadField(field[1]).val = payload
       /\ field[1][1] = Quote
       /\ field[1][Len(field[1])] = Quote

\* a value of a comma, a quote and a newline was serialized
C17_Witness ==
  /\ pc = "serialized"
  /\ payload[2][2] = <<Comma, Quote, Newline>>
  /\ ReadField(field[1]).val[2][2] = <<Comma, Quote, Newline>>
  /\ Len(field[1]) > Len(JsonStringify(payload))

\* C21 (as claimed): in the first run for a channel, whenever a fetch after
\* the first one is in flight, every message kept from the pages fetched
\* before it is already held by a row of the artifact
C21_PersistedBeforeNextFetch ==
  (runs = 0 /\ Len(cursors) >= 2 /\ pc \in {"admit", "op", "backoff"})
    => /\ files[channelId] # <<>>
       /\ Len(RowsOf(files[channelId][1])) >= Len(allMessages)

\* the number of messages of batch n of a call: BATCH_INSERT_SIZE, but for
\* the last batch, which holds the rest
BatchSizeOf(call, n) ==
  Min(BATCH_INSERT_SIZE, Len(call.messages) - (n - 1) * BATCH_INSERT_SIZE)

RECURSIVE SucceededSize(_, _)
\* the total size of the batches 1..n of a call whose write did not throw
SucceededSize(call, n) ==
  IF n = 0 THEN 0
  ELSE SucceededSize(call, n - 1)
         + (IF n \in call.fails THEN 0 ELSE BatchSizeOf(call, n))

\* the text of the batches of a call whose write did not throw, in order
SucceededText(call) ==
  Join([n \in BatchNumbers(call.messages) |->
          IF n \in call.fails THEN <<>>
          ELSE CsvContent(SliceBatch(call.messages, (n - 1) * BATCH_INSERT_SIZE),
                          call.metadata)],
       <<>>)

\* C22: a call of appendMessages on an initialized processor appends the
\* batches of 100 whose write succeeds, in order and each of them whichever
\* batch failed before it; when it returns, appended is the total size of
\* those batches and errors holds one string for each batch that failed
C22_BatchIsolation ==
  [][(CsvAppend /\ csvFilePath # <<>>)
       => \E call \in {appendCall'} :
            /\ FileAt(files', csvFilePath[1])
                 = FileAt(files, csvFilePath[1]) \o SucceededText(call)
            /\ appendResult'.kind = "returned"
                 => /\ appendResult'.appended
                         = SucceededSize(call,
                                         Cardinality(BatchNumbers(call.messages)))
                    /\ Len(appendResult'.errors) = Cardinality(call.fails)
                    /\ {appendResult'.errors[k] : k \in DOMAIN appendResult'.errors}
                         = {BatchErrorMsg(n, MsgIoFailed) : n \in call.fails}]_vars

\* the first batch of 101 messages failed and the second one was appended
C22_Witness ==
  /\ pc = "csv"
  /\ Len(appendCall.messages) = BATCH_INSERT_SIZE + 1
  /\ appendCall.fails = {1}
  /\ appendResult = AppendReturned(1, <<BatchErrorMsg(1, MsgIoFailed)>>)
  /\ Len(LinesOf(FileAt(files, csvFilePath[1]))) = 2

\* C23 (as claimed): a call of appendMessages in which the write of a batch
\* fails throws
C23_IoFailureRaised ==
  [][(CsvAppend /\ appendCall'.fails # {}) => appendResult'.kind = "thrown"]_vars

\* C23 (amended): a call of appendMessages throws only when the processor is
\* not initialized or when the artifact does not exist after the batch loop;
\* otherwise it returns, and every batch whose write failed is named by one of
\* the returned errors
C23_IoFailureRecorded ==
  [][CsvAppend
       => LET missing == IF csvFilePath = <<>> THEN TRUE
                         ELSE files'[csvFilePath[1]] = <<>>
          IN /\ appendResult'.kind = (IF missing THEN "thrown" ELSE "returned")
             /\ ~missing
                  => \A n \in appendCall'.fails :
                       \E k \in DOMAIN appendResult'.errors :
                         appendResult'.errors[k] = BatchErrorMsg(n, MsgIoFailed)]_vars

\* the write of the only batch of a call failed on an artifact that exists,
\* and the call returned
C23_Witness ==
  /\ pc = "csv"
  /\ csvFilePath # <<>>
  /\ Len(appendCall.messages) = 1
  /\ appendCall.fails = {1}
  /\ appendResult = AppendReturned(0, <<BatchErrorMsg(1, MsgIoFailed)>>)
  /\ files[csvFilePath[1]] = <<HeaderLine>>

RECURSIVE SplitFields(_, _, _, _)
\* the fields of a line from position i on, as a reader of CSV takes them: a
\* comma separates two fields unless it is inside quotes; the field being
\* read began at start
SplitFields(s, i, start, inQuotes) ==
  IF i > Len(s) THEN <<SubSeq(s, start, Len(s))>>
  ELSE IF s[i] = Quote THEN SplitFields(s, i + 1, start, ~inQuotes)
  ELSE IF s[i] = Comma /\ ~inQuotes
  THEN <<SubSeq(s, start, i - 1)>> \o SplitFields(s, i + 1, i + 1, FALSE)
  ELSE SplitFields(s, i + 1, start, inQuotes)

\* the messages of the batches of a call whose write did not throw, in order
SucceededMessages(call) ==
  Join([n \in BatchNumbers(call.messages) |->
          IF n \in call.fails THEN <<>>
          ELSE SliceBatch(call.messages, (n - 1) * BATCH_INSERT_SIZE)],
       <<>>)

\* what the column of a name holds in the row of a message
ColumnValue(name, metadata, msg) ==
  IF name = CSV_HEADERS[1] THEN metadata.serverName
  ELSE IF name = CSV_HEADERS[2] THEN metadata.serverId
  ELSE IF name = CSV_HEADERS[3] THEN metadata.channelName
  ELSE IF name = CSV_HEADERS[4] THEN metadata.channelId
  ELSE JsonStringify(MessageObject(msg))

\* the line is the row of the message: five fields that read back, in the
\* order of the header, as the metadata of the call and the JSON text of the
\* message, which parses as the message
IsRowOf(line, metadata, msg) ==
  \E fields \in {SplitFields(line, 1, 1, FALSE)} :
    /\ Len(fields) = 5
    /\ Len(CSV_HEADERS) = 5
    /\ \A c \in 1..5 :
         \E u \in {UnquoteCSVField(fields[c])} :
           /\ u.ok
           /\ u.val = ColumnValue(CSV_HEADERS[c], metadata, msg)
    /\ ReadField(fields[5]).ok
    /\ ReadField(fields[5]).val = MessageObject(msg)

\* C25: after a call of appendMessages that returned, the artifact ends with
\* a newline and its last lines are the rows of the messages of the batches
\* that were written, one line per message and in their order, each of five
\* comma-delimited fields: server_name, server_id, channel_name, channel_id of
\* the metadata of the call, and data, the serialized message
C25_RowShape ==
  (appendResult.kind = "returned" /\ csvFilePath = <<appendCall.metadata.channelId>>)
    => \E text \in {files[csvFilePath[1]][1]} :
       \E lines \in {LinesOf(text)}, msgs \in {SucceededMessages(appendCall)} :
         /\ Len(msgs) = appendResult.appended
         /\ Len(lines) >= Len(msgs)
         /\ text[Len(text)] = Newline
         /\ Len(SplitOn(text, Newline)) = Len(lines) + 1
         /\ \A k \in DOMAIN msgs :
              IsRowOf(lines[Len(lines) - Len(msgs) + k], appendCall.metadata,
                      msgs[k])

\* two batches of rows were written for a server whose name holds a comma
C25_Witness ==
  /\ pc = "csv"
  /\ appendResult = AppendReturned(BATCH_INSERT_SIZE + 1, <<>>)
  /\ appendCall.metadata.serverName = <<"a", Comma, "b">>
  /\ csvFilePath = <<appendCall.metadata.channelId>>
  /\ Len(LinesOf(files[csvFilePath[1]][1])) = BATCH_INSERT_SIZE + 2
  /\ Len(SplitOn(LinesOf(files[csvFilePath[1]][1])[3], Comma)) > 5

\* the page that a request with limit = MESSAGE_LIMITS_MAX and the cursor
\* brings: the newest messages older than the cursor, 100 at most
PageOfLimit(cursor) ==
  LET top == IF cursor = <<>> THEN feedSize ELSE cursor[1] - 1
      size == IF top > MESSAGE_LIMITS_MAX THEN MESSAGE_LIMITS_MAX ELSE top
  IN [k \in 1..size |-> Message(top + 1 - k, TimestampOfId(top + 1 - k))]

\* C26: the first fetch of a run carries no cursor; every other fetch is
\* issued after a page and carries the id of the last message of that raw
\* page, whatever the timestamp filter kept; and every page received is the
\* one a request with limit = 100 and that cursor brings
C26_LimitAndCursor ==
  /\ [](cursors # <<>> => cursors[1] = <<>>)
  /\ []((pc = "returned" /\ response.ok)
          => response.body = PageOfLimit(cursors[Len(cursors)]))
  /\ [][cursors' # cursors
          => \/ cursors = <<>> /\ cursors' = <<<<>>>>
             \/ /\ pc = "delay"
                /\ response.body # <<>>
                /\ cursors' = Append(cursors,
                                     <<response.body[Len(response.body)].id>>)]_vars

\* the filter dropped the last seven messages of the first page, and the
\* second fetch carries the id of the last of them
C26_Witness ==
  /\ feedSize = 10
  /\ timestampStart = BoundAt(8)
  /\ Len(allMessages) = 3
  /\ allMessages[3].id = 8
  /\ cursors = <<<<>>, <<1>>>>
  /\ pc = "op"

\* C27: the pagination delays taken are one fewer than the fetches issued, at
\* every moment of a run and so at its end, whether it ends on an empty page,
\* on the cap or on a failure; a delay is asked for PAGINATION_DELAY_MS, is
\* taken only while hasMore holds, lasts that long and is followed at once by
\* the next fetch
C27_OneDelayBetweenFetches ==
  /\ [](delays = IF cursors = <<>> THEN 0 ELSE Len(cursors) - 1)
  /\ [](pc = "delay" => (hasMore /\ wakeAt = now + PAGINATION_DELAY_MS))
  /\ [][delays' # delays
          => /\ pc = "delay"
             /\ delays' = delays + 1
             /\ now' = now + PAGINATION_DELAY_MS
             /\ Len(cursors') = Len(cursors) + 1]_vars
  /\ [][Len(cursors') > Len(cursors) /\ cursors # <<>>
          => delays' = delays + 1]_vars

\* a run of four fetches and three delays has ended on an empty page
C27_Witness ==
  /\ pc = "done"
  /\ feedSize = 250
  /\ response.body = <<>>
  /\ Len(cursors) = 4
  /\ delays = 3
  /\ now = 3 * PAGINATION_DELAY_MS

\* C28: when attempt a of executeWithRetry fails with a rate-limit error and
\* a < MAX_RETRIES, a delay of RETRY_DELAY_MS * 2^(a-1) ms is asked for, 1000
\* ms after attempt 1 and 2000 ms after attempt 2, and the next attempt comes
\* only when it has passed; when attempt MAX_RETRIES fails so, the error is
\* thrown at once, without a delay
C28_BackoffSchedule ==
  /\ [](sleeps \in {<<>>, <<1000>>, <<1000, 2000>>})
  /\ [][(pc = "op" /\ Len(outcomes') = Len(outcomes) + 1
           /\ IsThrottled(outcomes'[Len(outcomes')]))
          => IF attempt < MAX_RETRIES
             THEN /\ pc' = "backoff"
                  /\ sleeps' = Append(sleeps, RETRY_DELAY_MS * 2 ^ (attempt - 1))
                  /\ wakeAt' = now' + RETRY_DELAY_MS * 2 ^ (attempt - 1)
                  /\ attempt' = attempt
                  /\ result' = NoResult
             ELSE /\ pc' = "thrown"
                  /\ result'.kind = "thrown"
                  /\ sleeps' = sleeps
                  /\ suspended' = suspended
                  /\ wakeAt' = wakeAt]_vars
  /\ [][pc = "backoff"
          => /\ pc' = "admit"
             /\ attempt' = attempt + 1
             /\ now' >= now + sleeps[Len(sleeps)]
             /\ suspended' = suspended + (now' - now)]_vars

\* three rate-limit failures: two delays, and the third failure was thrown
C28_Witness ==
  /\ pc = "thrown"
  /\ attempt = MAX_RETRIES + 1
  /\ Len(outcomes) = MAX_RETRIES
  /\ \A k \in 1..MAX_RETRIES : IsThrottled(outcomes[k])
  /\ sleeps = <<1000, 2000>>
  /\ suspended >= 3000
  /\ result.kind = "thrown"

\* the slots reserved so far that no invocation of the operation has used
FreeAdmits == admits - Len(outcomes) - (IF pc = "op" THEN 1 ELSE 0)

\* C29: the operation is invoked only from the end of a waitForRateLimit,
\* first attempt and retries alike, and each waitForRateLimit adds exactly one
\* timestamp, the time of its end, to the window; nothing else adds one, so
\* that within a call of executeWithRetry the timestamps added are as many as
\* the attempts made
C29_AdmitBeforeEachAttempt ==
  /\ [][Len(outcomes') = Len(outcomes) + 1 => (pc = "op" /\ pc' # "op")]_vars
  /\ [][(pc' = "op" /\ pc # "op")
          => (pc \in {"admit", "rlwait"} /\ admits' = admits + 1)]_vars
  /\ [][admits' # admits
          => /\ admits' = admits + 1
             /\ pc' = "op"
             /\ requestTimes' # <<>>
             /\ requestTimes'[Len(requestTimes')] = now'
             /\ \A i \in 1..(Len(requestTimes') - 1) :
                  \E j \in DOMAIN requestTimes : requestTimes[j] = requestTimes'[i]]_vars
  /\ [][admits' = admits
          => /\ Len(requestTimes') <= Len(requestTimes)
             /\ \A i \in DOMAIN requestTimes' :
                  \E j \in DOMAIN requestTimes : requestTimes[j] = requestTimes'[i]]_vars
  /\ [][calls' = calls => FreeAdmits' = FreeAdmits]_vars

\* a call of three attempts has ended on a limiter whose window held ten
\* timestamps when the call began: thirteen slots were reserved in all
C29_Witness ==
  /\ pc \in {"returned", "thrown"}
  /\ Len(outcomes) = MAX_RETRIES
  /\ admits = REQUESTS_PER_SECOND + MAX_RETRIES
  /\ FreeAdmits = REQUESTS_PER_SECOND

\* C30: on a channel of finitely many messages, whose pages hold strictly
\* older messages and are empty once the channel is exhausted, every run whose
\* waits end reaches DONE or FAILED and stays there; and a page that is not
\* empty ends the run only when it reaches the cap, a page shorter than the
\* limit being followed by the next fetch
C30_Terminates ==
  /\ <>[](pc \in {"done", "failed"})
  /\ [][(pc = "returned" /\ response.ok /\ response.body # <<>>)
          => IF maxMessages > 0 /\ Len(allMessages') = maxMessages
             THEN pc' = "done"
             ELSE pc' = "delay" /\ hasMore']_vars

\* a run ended on the empty page it fetched after a page of 50 messages
C30_Witness ==
  /\ pc = "done"
  /\ feedSize = MESSAGE_LIMITS_MAX + 50
  /\ maxMessages = 0
  /\ cursors = <<<<>>, <<51>>, <<1>>>>
  /\ totalFetched = feedSize
  /\ response.body = <<>>

\* C31: a run of main whose scrape returned errors exits with failure without
\* a call of appendMessages: the exit leaves every file as it is, rows are
\* added to an artifact only after a scrape without errors, and after the
\* failed first run for a channel the artifact it created is the header alone,
\* whatever messages the scrape had kept
C31_FailedRunAppendsNothing ==
  /\ [](pc = "exit1"
          => /\ errors # <<>>
             /\ appendResult = NoAppend
             /\ appendCall = NoAppendCall
             /\ runs = 0 => (files[channelId] = <<HeaderLine>>
                               /\ appendedRows[channelId] = 0))
  /\ [][pc = "failed"
          => (pc' = "exit1" /\ files' = files /\ appendedRows' = appendedRows)]_vars
  /\ [][(files' # files /\ files[channelId] # <<>>)
          => (pc = "done" /\ errors = <<>>)]_vars

\* the first run kept two pages of messages, failed on the third fetch and
\* has exited
C31_Witness ==
  /\ pc = "exit1"
  /\ runs = 0
  /\ Len(allMessages) = 2 * MESSAGE_LIMITS_MAX
  /\ Len(cursors) = 3
  /\ Len(errors) = 1
  /\ files[channelId] = <<HeaderLine>>

AllResumed == \A c \in Callers : callerPc[c] = "idle"
C33_CapWhenInterleaved ==
  (overlapped /\ AllResumed)
    => Cardinality(YoungSlots(now)) <= REQUESTS_PER_SECOND

\* the messages of the channel that pass the filter, newest first
FilteredFeed ==
  SelectSeq([k \in 1..feedSize |->
               Message(feedSize + 1 - k, TimestampOfId(feedSize + 1 - k))],
            LAMBDA m : InRange(m.timestamp, timestampStart, timestampEnd))

\* C34: the messages scrapeChannel holds and returns are a prefix of the
\* filtered feed, newest first: kept messages stay in fetch order, and a
\* run that ends on the cap K holds the first K messages of the filtered
\* feed
C34_PrefixOfFilteredFeed ==
  /\ IsPrefix(allMessages, FilteredFeed)
  /\ \A i \in 1..(Len(allMessages) - 1) :
       allMessages[i].id > allMessages[i + 1].id
  /\ (pc = "done" /\ CapReached(maxMessages, Len(allMessages)))
       => allMessages = SubSeq(FilteredFeed, 1, maxMessages)

\* 130 of 250 messages pass the filter; the third page brings the kept
\* messages to 130 and the cap of 100 cuts them to the 100 newest
C34_Witness ==
  /\ pc = "done"
  /\ feedSize = 250
  /\ maxMessages = 100
  /\ timestampEnd = BoundAt(130)
  /\ Len(cursors) = 3
  /\ totalFetched = 250
  /\ Len(allMessages) = 100
  /\ allMessages[1].id = 130
  /\ allMessages[100].id = 31

\* C35: every ScraperResult scrapeChannel returns, after the loop and from
\* the catch block, has totalScraped = messages.length and totalAppended =
\* 0, and holds at most maxMessages messages when maxMessages > 0
C35_ResultCounts ==
  pc \in {"done", "failed"}
    => /\ scrapeResult.messages = allMessages
       /\ scrapeResult.totalScraped = Len(scrapeResult.messages)
       /\ scrapeResult.totalAppended = 0
       /\ maxMessages > 0 => Len(scrapeResult.messages) <= maxMessages

\* a failed run under a cap of 100: 200 messages fetched, 80 kept, and the
\* result counts the 80
C35_Witness ==
  /\ pc = "failed"
  /\ maxMessages = 100
  /\ totalFetched = 200
  /\ errors # <<>>
  /\ scrapeResult.totalScraped = 80
  /\ Len(scrapeResult.messages) = 80

\* no initializeCSV of the current CSVProcessor has succeeded: none was
\* called on it, or the only call made so far was an initializeCSV that
\* threw
NoSuccessfulInit ==
  \/ initResult = NoCall
  \/ runs = 0 /\ calls = 1 /\ initResult.kind = "thrown"

\* the step is a call of appendMessages by the direct caller
IsAppendStep ==
  /\ calls' = calls + 1
  /\ \/ initResult = NoCall /\ initResult' = NoCall
     \/ appendResult = NoAppend /\ appendResult' # NoAppend

\* C36: appendMessages on a CSVProcessor with no successful initializeCSV
\* throws "CSV file not initialized" and leaves every file as it was
C36_UninitializedAppendFails ==
  [][(NoSuccessfulInit /\ IsAppendStep)
       => (/\ appendResult' = AppendThrew(MsgNotInitialized)
           /\ files' = files)]_vars

====
